---- MODULE Spec2Model ----
(***************************************************************************)
(* Facebook / Mistral MCP integration layer.                               *)
(*                                                                         *)
(* The model covers the credential file (facebook_users.json), the OAuth   *)
(* callback that writes it, the credential-store queries of FacebookClient,*)
(* the posting / analytics tools in both code generations of the repository*)
(* (the modular package under src/src and the monolithic main.py), the     *)
(* metrics extractor, and the language-model client with post_generation.  *)
(*                                                                         *)
(* JSON objects are functions from string keys; an upstream call that      *)
(* raises (network failure, undecodable body) is the object Raised(..).    *)
(* Python's None is the string None where a string is expected (ids, query *)
(* parameters) and the object NoneObj where an object is expected.         *)
(***************************************************************************)
EXTENDS Integers, Sequences, FiniteSets, TLC

\* ---------------------------------------------------------------- bounds
MaxPages == 2       \* pages returned by /me/accounts
MaxPosts == 2       \* posts returned by /{page}/posts
MaxMetrics == 2     \* metric entries in an insights response
MaxCount == 2       \* largest upstream counter value
MaxReply == 5       \* tokens in a language-model reply

\* ---------------------------------------------------------------- values
None == "None"                       \* Python None in a string position
NoneObj == [none |-> TRUE]           \* Python None in an object position
EmptyObj == [k \in {} |-> 0]         \* the JSON object {} / empty dict
Raised(e) == [raise |-> e]           \* the call raised exception e
IsRaised(r) == "raise" \in DOMAIN r
Has(obj, k) == k \in DOMAIN obj      \* Python: k in obj

PageA == [id |-> "pA", name |-> "A", access_token |-> "tA"]
PageB == [id |-> "pB", name |-> "B", access_token |-> "tB"]
Pages == {PageA, PageB}
PageLists == UNION {[1..n -> Pages] : n \in 0..MaxPages}

UserIds == {None, "u1"}              \* os.getenv("LE_CHAT_USER_ID")
UserTokens == {"ut1", "ut2"}

VARIABLES
    LE_CHAT_USER_ID,   \* the configured fixed user id (None when unset)
    file,              \* parsed content of facebook_users.json
    lastWrite,         \* the record built by the latest successful callback
    op,                \* name of the operation that ran last
    env,               \* what the upstream services answered to it
    reqs,              \* upstream requests it issued, in order
    ret                \* what it returned

vars == <<LE_CHAT_USER_ID, file, lastWrite, op, env, reqs, ret>>

\* ------------------------------------------------------- credential file
\* json.dump turns a None key into the string "null"; a key written later
\* wins over an equal key written earlier when the file is loaded again.
JsonKey(k) == IF k = None THEN "null" ELSE k

json_dump(data) ==
    [k \in {JsonKey(x) : x \in DOMAIN data} |->
        IF None \in DOMAIN data /\ k = "null" THEN data[None] ELSE data[k]]

\* the file holds JSON text; loading it gives back string keys only
load_user_data == file

save_user_data(data) == json_dump(data)

\* a file whose content json.load cannot read: load_user_data raises
Unreadable == [unreadable |-> TRUE]
LoadRaises == Has(file, "unreadable")

\* an update that keeps the pages of a record already stored under k
DictSetKeepingPages(data, k, v) ==
    [x \in DOMAIN data \cup {k} |->
        IF x # k THEN data[x]
        ELSE IF k \in DOMAIN data /\ Has(data[k], "pages") /\ Has(v, "pages")
        THEN [v EXCEPT !.pages = data[k].pages]
        ELSE v]

DictSet(data, k, v) ==
    [x \in DOMAIN data \cup {k} |-> IF x = k THEN v ELSE data[x]]

\* ---------------------------------------------------- FacebookClient
is_connected(uid, user_data) ==
    uid \in DOMAIN user_data /\ Has(user_data[uid], "pages")

get_first_page_last(uid, user_data) ==
    IF uid \in DOMAIN user_data
    THEN LET pages == IF Has(user_data[uid], "pages")
                      THEN user_data[uid].pages ELSE <<>>
         IN IF pages # <<>> THEN pages[Len(pages)] ELSE NoneObj
    ELSE NoneObj

get_first_page(uid, user_data) ==
    IF uid \in DOMAIN user_data
    THEN LET pages == IF Has(user_data[uid], "pages")
                      THEN user_data[uid].pages ELSE <<>>
         IN IF pages # <<>> THEN pages[1] ELSE NoneObj
    ELSE NoneObj

\* ------------------------------------------------------- OAuth callback
TokenResponses ==
    {Raised("ConnectionError"), [error |-> [message |-> "bad code"]], EmptyObj}
    \cup {[access_token |-> t] : t \in UserTokens}

PagesResponses ==
    {Raised("ConnectionError"), [error |-> [message |-> "no permission"]]}
    \cup {[data |-> ps] : ps \in PageLists}

Get(url, token) == [method |-> "GET", url |-> url, token |-> token]
Post(url, token) == [method |-> "POST", url |-> url, token |-> token]

\* a handler that looks at the error parameter only when there is no code
facebook_callback_code_first(code, error, token_data, pages_data) ==
    /\ op' = "facebook_callback"
    /\ env' = [code |-> code, error |-> error,
               token |-> token_data, pages |-> pages_data]
    /\ UNCHANGED LE_CHAT_USER_ID
    /\ IF error # None /\ code = None
       THEN /\ ret' = [page |-> "Authorization Failed"]
            /\ reqs' = <<>>
            /\ UNCHANGED <<file, lastWrite>>
       ELSE IF code = None
       THEN /\ ret' = [page |-> "No Authorization Code"]
            /\ reqs' = <<>>
            /\ UNCHANGED <<file, lastWrite>>
       ELSE IF IsRaised(token_data)
       THEN /\ ret' = [page |-> "Error"]
            /\ reqs' = <<Get("oauth/access_token", code)>>
            /\ UNCHANGED <<file, lastWrite>>
       ELSE IF ~Has(token_data, "access_token")
       THEN /\ ret' = [page |-> "Token Exchange Failed"]
            /\ reqs' = <<Get("oauth/access_token", code)>>
            /\ UNCHANGED <<file, lastWrite>>
       ELSE LET access_token == token_data.access_token
                both == <<Get("oauth/access_token", code),
                          Get("me/accounts", access_token)>>
            IN /\ reqs' = both
               /\ IF IsRaised(pages_data)
                  THEN /\ ret' = [page |-> "Error"]
                       /\ UNCHANGED <<file, lastWrite>>
                  ELSE IF ~Has(pages_data, "data")
                  THEN /\ ret' = [page |-> "Pages Access Failed"]
                       /\ UNCHANGED <<file, lastWrite>>
                  ELSE LET rec == [facebook_user_id |-> LE_CHAT_USER_ID,
                                   access_token |-> access_token,
                                   pages |-> pages_data.data]
                           user_data == DictSet(load_user_data,
                                                LE_CHAT_USER_ID, rec)
                       IN /\ file' = save_user_data(user_data)
                          /\ lastWrite' = rec
                          /\ ret' = [page |-> "Facebook Authorization Complete"]

\* GET /facebook/callback?code=..&error=..
facebook_callback(code, error, token_data, pages_data) ==
    /\ op' = "facebook_callback"
    /\ env' = [code |-> code, error |-> error,
               token |-> token_data, pages |-> pages_data]
    /\ UNCHANGED LE_CHAT_USER_ID
    /\ IF error # None
       THEN /\ ret' = [page |-> "Authorization Failed"]
            /\ reqs' = <<>>
            /\ UNCHANGED <<file, lastWrite>>
       ELSE IF code = None
       THEN /\ ret' = [page |-> "No Authorization Code"]
            /\ reqs' = <<>>
            /\ UNCHANGED <<file, lastWrite>>
       ELSE IF IsRaised(token_data)
       THEN /\ ret' = [page |-> "Error"]
            /\ reqs' = <<Get("oauth/access_token", code)>>
            /\ UNCHANGED <<file, lastWrite>>
       ELSE IF ~Has(token_data, "access_token")
       THEN /\ ret' = [page |-> "Token Exchange Failed"]
            /\ reqs' = <<Get("oauth/access_token", code)>>
            /\ UNCHANGED <<file, lastWrite>>
       ELSE LET access_token == token_data.access_token
                both == <<Get("oauth/access_token", code),
                          Get("me/accounts", access_token)>>
            IN /\ reqs' = both
               /\ IF IsRaised(pages_data)
                  THEN /\ ret' = [page |-> "Error"]
                       /\ UNCHANGED <<file, lastWrite>>
                  ELSE IF ~Has(pages_data, "data")
                  THEN /\ ret' = [page |-> "Pages Access Failed"]
                       /\ UNCHANGED <<file, lastWrite>>
                  ELSE LET rec == [facebook_user_id |-> LE_CHAT_USER_ID,
                                   access_token |-> access_token,
                                   pages |-> pages_data.data]
                           user_data == DictSet(load_user_data,
                                                LE_CHAT_USER_ID, rec)
                       IN /\ file' = save_user_data(user_data)
                          /\ lastWrite' = rec
                          /\ ret' = [page |-> "Facebook Authorization Complete"]

Callback ==
    \E code \in {None, "c1"}, error \in {None, "access_denied"},
       token_data \in TokenResponses, pages_data \in PagesResponses :
        facebook_callback(code, error, token_data, pages_data)

\* ------------------------------------------------------ upstream shapes
\* A metric value is a number or a mapping (the per-type reaction counts).
Num(n) == [num |-> n]
Map(m) == [map |-> m]
IsDict(v) == Has(v, "map")           \* isinstance(value, dict)
Counts == 0..MaxCount
ReactionMaps == [{"like", "love"} -> Counts]

RECURSIVE SumOver(_, _)
SumOver(f, keys) ==
    IF keys = {} THEN 0
    ELSE LET k == CHOOSE x \in keys : TRUE
         IN f[k] + SumOver(f, keys \ {k})
SumValues(m) == SumOver(m, DOMAIN m)          \* sum(m.values())
GetOr(m, k, d) == IF Has(m, k) THEN m[k] ELSE d   \* m.get(k, d)

SimpleMetrics == {"post_impressions", "post_engaged_users", "post_clicks"}
ReactionsMetric == "post_reactions_by_type_total"
OtherMetric == "post_video_views"        \* a metric neither extractor names
MetricNames == SimpleMetrics \cup {ReactionsMetric, OtherMetric}

ValuesOf(vs) == {<<>>} \cup {<<[value |-> v]>> : v \in vs}
MetricEntries ==
    {[values |-> <<[value |-> Num(1)]>>]}                  \* entry without name
    \cup {[name |-> n] : n \in MetricNames}
    \cup {[name |-> n, values |-> vs] :
            n \in SimpleMetrics, vs \in ValuesOf({Num(c) : c \in Counts})}
    \cup {[name |-> OtherMetric, values |-> vs] : vs \in ValuesOf({Num(1)})}
    \cup {[name |-> ReactionsMetric, values |-> vs] :
            vs \in ValuesOf({Num(c) : c \in Counts}
                            \cup {Map(m) : m \in ReactionMaps})}

InsightsResponses ==
    {Raised("ConnectionError"), [error |-> [message |-> "unsupported"]]}
    \cup {[data |-> d] :
            d \in UNION {[1..n -> MetricEntries] : n \in 0..MaxMetrics}}

ReactionsResponses ==
    {Raised("JSONDecodeError"), EmptyObj, [summary |-> EmptyObj]}
    \cup {[summary |-> [total_count |-> c]] : c \in Counts}

\* ----------------------------------------- FacebookPosts.get_post_analytics
ZeroAnalytics ==
    [views |-> 0, engaged_users |-> 0, clicks |-> 0, likes |-> 0,
     metadata |-> [reactions |-> [like |-> 0, love |-> 0, wow |-> 0,
                                  haha |-> 0, sad |-> 0, angry |-> 0]]]

ErrorAnalytics ==
    [views |-> 0, engaged_users |-> 0, clicks |-> 0, likes |-> 0,
     metadata |-> [reactions |-> EmptyObj]]

\* metric['values'][0]['value']: KeyError without values, IndexError when empty
FirstValue(metric) ==
    IF ~Has(metric, "values") THEN Raised("KeyError")
    ELSE IF metric.values = <<>> THEN Raised("IndexError")
    ELSE metric.values[1].value

\* one iteration of the loop over insights_data['data']
ProcessMetric(analytics, metric) ==
    IF ~Has(metric, "name") THEN Raised("KeyError")
    ELSE IF metric.name \notin SimpleMetrics \cup {ReactionsMetric}
    THEN analytics
    ELSE LET v == FirstValue(metric) IN
         IF IsRaised(v) THEN v
         ELSE IF metric.name = "post_impressions"
         THEN [analytics EXCEPT !.views = v.num]
         ELSE IF metric.name = "post_engaged_users"
         THEN [analytics EXCEPT !.engaged_users = v.num]
         ELSE IF metric.name = "post_clicks"
         THEN [analytics EXCEPT !.clicks = v.num]
         ELSE IF ~IsDict(v) THEN Raised("AttributeError")
         ELSE [analytics EXCEPT !.metadata.reactions = v.map,
                                !.likes = SumValues(v.map)]

\* a loop that skips an entry it cannot read instead of failing
RECURSIVE ProcessInsightsSkipping(_, _, _)
ProcessInsightsSkipping(analytics, data, i) ==
    IF i > Len(data) THEN analytics
    ELSE LET a == ProcessMetric(analytics, data[i])
         IN ProcessInsightsSkipping(IF IsRaised(a) THEN analytics ELSE a,
                                    data, i + 1)

RECURSIVE ProcessInsights(_, _, _)
ProcessInsights(analytics, data, i) ==
    IF i > Len(data) THEN analytics
    ELSE LET a == ProcessMetric(analytics, data[i])
         IN IF IsRaised(a) THEN a ELSE ProcessInsights(a, data, i + 1)

HasTotalCount(reactions_data) ==
    Has(reactions_data, "summary") /\ Has(reactions_data.summary, "total_count")

\* an extractor that lets the insights-derived sum stand
get_post_analytics_sum_wins(insights_data, reactions_data) ==
    IF IsRaised(insights_data) \/ IsRaised(reactions_data) THEN ErrorAnalytics
    ELSE LET a == IF Has(insights_data, "data")
                  THEN ProcessInsights(ZeroAnalytics, insights_data.data, 1)
                  ELSE ZeroAnalytics
         IN IF IsRaised(a) THEN ErrorAnalytics
            ELSE IF HasTotalCount(reactions_data) /\ a.likes = 0
            THEN [a EXCEPT !.likes = reactions_data.summary.total_count]
            ELSE a

get_post_analytics(insights_data, reactions_data) ==
    IF IsRaised(insights_data) \/ IsRaised(reactions_data) THEN ErrorAnalytics
    ELSE LET a == IF Has(insights_data, "data")
                  THEN ProcessInsights(ZeroAnalytics, insights_data.data, 1)
                  ELSE ZeroAnalytics
         IN IF IsRaised(a) THEN ErrorAnalytics
            ELSE IF HasTotalCount(reactions_data)
            THEN [a EXCEPT !.likes = reactions_data.summary.total_count]
            ELSE a

\* requests issued by get_post_analytics: the reactions GET follows only an
\* insights GET that returned
get_post_analytics_reqs(token, post_id, insights_data) ==
    IF IsRaised(insights_data)
    THEN <<Get(<<post_id, "insights">>, token)>>
    ELSE <<Get(<<post_id, "insights">>, token),
           Get(<<post_id, "reactions">>, token)>>

\* --------------------------------------- main.get_post_analytics_internal
InternalRecord(post_id, views, likes, clicks, breakdown, total, stamp) ==
    [views |-> views, likes |-> likes, clicks |-> clicks,
     metadata |-> [platform |-> "facebook", postId |-> post_id,
                   reactions |-> [like |-> GetOr(breakdown, "like", 0),
                                  love |-> GetOr(breakdown, "love", 0),
                                  wow |-> GetOr(breakdown, "wow", 0),
                                  haha |-> GetOr(breakdown, "haha", 0),
                                  sorry |-> GetOr(breakdown, "sorry", 0),
                                  anger |-> GetOr(breakdown, "anger", 0),
                                  total |-> total],
                   lastUpdated |-> stamp]]

InternalError(post_id) ==
    InternalRecord(post_id, 0, 0, 0, EmptyObj, 0, "error")

\* loop state: metrics dict, total_reactions, reaction_breakdown
InternalStep(st, metric) ==
    IF Has(metric, "values") /\ Len(metric.values) > 0
    THEN LET value == metric.values[1].value IN
         IF ~Has(metric, "name") THEN Raised("KeyError")
         ELSE IF metric.name = ReactionsMetric
         THEN IF IsDict(value)
              THEN [metrics |-> DictSet(st.metrics, "total_reactions",
                                        SumValues(value.map)),
                    total |-> SumValues(value.map),
                    breakdown |-> value.map]
              ELSE [st EXCEPT !.metrics = DictSet(st.metrics,
                                                  "total_reactions", value.num),
                              !.total = value.num]
         ELSE [st EXCEPT !.metrics = DictSet(st.metrics, metric.name, value.num)]
    ELSE st

RECURSIVE InternalLoop(_, _, _)
InternalLoop(st, data, i) ==
    IF i > Len(data) THEN st
    ELSE LET s == InternalStep(st, data[i])
         IN IF IsRaised(s) THEN s ELSE InternalLoop(s, data, i + 1)

get_post_analytics_internal(post_id, insights_data) ==
    IF IsRaised(insights_data) THEN InternalError(post_id)
    ELSE IF ~Has(insights_data, "data") THEN InternalError(post_id)
    ELSE LET st == InternalLoop([metrics |-> EmptyObj, total |-> 0,
                                 breakdown |-> EmptyObj],
                                insights_data.data, 1)
         IN IF IsRaised(st) THEN InternalError(post_id)
            ELSE InternalRecord(post_id,
                                GetOr(st.metrics, "post_impressions", 0),
                                st.total,
                                GetOr(st.metrics, "post_clicks", 0),
                                st.breakdown, st.total,
                                "2024-01-01T00:00:00Z")

\* ------------------------------------------------------- post listings
PostIds == {"p1", "p2"}
TextPost(id) == [id |-> id, created_time |-> <<"t", id>>, message |-> <<"m", id>>]
PhotoPost(id) ==
    [id |-> id, created_time |-> <<"t", id>>,
     attachments |-> [data |-> <<[type |-> "share"],
                                 [type |-> "photo",
                                  media |-> [image |-> [src |-> <<"img", id>>]]]>>]]
PostShapes == {TextPost(id) : id \in PostIds} \cup {PhotoPost(id) : id \in PostIds}
Listings == UNION {[1..n -> PostShapes] : n \in 0..MaxPosts}
PostsResponses ==
    {Raised("ConnectionError"), [error |-> [message |-> "expired token"]]}
    \cup {[data |-> l] : l \in Listings}

\* index of the first attachment of type photo, 0 when there is none
RECURSIVE FirstPhoto(_, _)
FirstPhoto(attachments, i) ==
    IF i > Len(attachments) THEN 0
    ELSE IF GetOr(attachments[i], "type", None) = "photo" THEN i
    ELSE FirstPhoto(attachments, i + 1)

PostAttachments(post) ==
    IF Has(post, "attachments") /\ Has(post.attachments, "data")
    THEN post.attachments.data ELSE <<>>

PostHasImage(post) == FirstPhoto(PostAttachments(post), 1) # 0

PostImageUrl(post) ==
    LET atts == PostAttachments(post)
        i == FirstPhoto(atts, 1)
    IN IF i # 0 /\ Has(atts[i], "media") /\ Has(atts[i].media, "image")
       THEN atts[i].media.image.src ELSE None

PostInfo(post, post_analytics) ==
    [post_id |-> post.id,
     created_date |-> post.created_time,
     text |-> GetOr(post, "message", <<>>),   \* texts are token sequences
     has_image |-> PostHasImage(post),
     image_url |-> PostImageUrl(post),
     analytics |-> post_analytics]

\* ------------------------------- FacebookAnalytics.fetch_analytics_data
\* an[i] holds what the insights and reactions endpoints answer for the
\* i-th listed post.  The result pairs the returned list with the requests.
\* a loop that leaves out the posts whose analytics came back as the
\* error record
RECURSIVE FetchLoopDropping(_, _, _, _)
FetchLoopDropping(page_token, posts, an, i) ==
    IF i > Len(posts) THEN [data |-> <<>>, reqs |-> <<>>]
    ELSE LET rest == FetchLoopDropping(page_token, posts, an, i + 1)
             a == get_post_analytics(an[i].insights, an[i].reactions)
         IN [data |-> IF a = ErrorAnalytics THEN rest.data
                      ELSE <<PostInfo(posts[i], a)>> \o rest.data,
             reqs |-> get_post_analytics_reqs(page_token, posts[i].id,
                                              an[i].insights) \o rest.reqs]

RECURSIVE FetchLoop(_, _, _, _)
FetchLoop(page_token, posts, an, i) ==
    IF i > Len(posts) THEN [data |-> <<>>, reqs |-> <<>>]
    ELSE LET rest == FetchLoop(page_token, posts, an, i + 1)
             a == get_post_analytics(an[i].insights, an[i].reactions)
         IN [data |-> <<PostInfo(posts[i], a)>> \o rest.data,
             reqs |-> get_post_analytics_reqs(page_token, posts[i].id,
                                              an[i].insights) \o rest.reqs]

fetch_analytics_data(uid, user_data, posts_data, an) ==
    IF ~is_connected(uid, user_data) THEN [data |-> <<>>, reqs |-> <<>>]
    ELSE LET page == get_first_page(uid, user_data) IN
         IF page = NoneObj THEN [data |-> <<>>, reqs |-> <<>>]
         ELSE LET listing == <<Get(<<page.id, "posts">>, page.access_token)>> IN
              IF IsRaised(posts_data) \/ ~Has(posts_data, "data")
              THEN [data |-> <<>>, reqs |-> listing]
              ELSE LET r == FetchLoop(page.access_token, posts_data.data, an, 1)
                   IN [data |-> r.data, reqs |-> listing \o r.reqs]

\* ------------------------------------ main.fetch_facebook_analytics_data
RECURSIVE MainFetchLoop(_, _, _, _)
MainFetchLoop(page_token, posts, an, i) ==
    IF i > Len(posts) THEN [data |-> <<>>, reqs |-> <<>>]
    ELSE LET rest == MainFetchLoop(page_token, posts, an, i + 1)
             a == get_post_analytics_internal(posts[i].id, an[i].insights)
         IN [data |-> <<PostInfo(posts[i], a)>> \o rest.data,
             reqs |-> <<Get(<<posts[i].id, "insights">>, page_token)>>
                      \o rest.reqs]

MainPages(uid, user_data) ==
    IF Has(user_data[uid], "pages") THEN user_data[uid].pages ELSE <<>>

fetch_facebook_analytics_data(uid, user_data, posts_data, an) ==
    IF uid \notin DOMAIN user_data THEN [data |-> <<>>, reqs |-> <<>>]
    ELSE LET pages == MainPages(uid, user_data) IN
         IF pages = <<>> THEN [data |-> <<>>, reqs |-> <<>>]
         ELSE LET first_page == pages[1]
                  listing == <<Get(<<first_page.id, "posts">>,
                                   first_page.access_token)>>
              IN IF IsRaised(posts_data) \/ ~Has(posts_data, "data")
                 THEN [data |-> <<>>, reqs |-> listing]
                 ELSE LET r == MainFetchLoop(first_page.access_token,
                                             posts_data.data, an, 1)
                      IN [data |-> r.data, reqs |-> listing \o r.reqs]

\* ---------------------------------------------------------------- tools
\* A tool reads the credential file and the upstream answers, returns a
\* text, and leaves the file alone.  A returned text is modelled by its
\* status and the values it embeds.
Tool(name, e, q, r) ==
    /\ op' = name
    /\ env' = e
    /\ reqs' = q
    /\ ret' = r
    /\ UNCHANGED <<LE_CHAT_USER_ID, file, lastWrite>>

NotConnected == [status |-> "error", why |-> "not_connected"]
NoPages == [status |-> "error", why |-> "no_pages"]
Failed(embedded) == [status |-> "error", why |-> "upstream", embeds |-> embedded]
PostUrl(post_id) == <<"https://www.facebook.com/", post_id>>

PostResponses ==
    {Raised("JSONDecodeError"), EmptyObj,
     [error |-> [message |-> "bad token"]], [error |-> [code |-> "190"]]}
    \cup {[id |-> i] : i \in PostIds}

\* result.get('error', {}).get('message', 'Unknown error')
ErrorMessage(result) ==
    GetOr(GetOr(result, "error", EmptyObj), "message", "Unknown error")

\* src/tools/auth_tools.py
check_facebook_connection ==
    LET page == get_first_page(LE_CHAT_USER_ID, load_user_data) IN
    Tool("check_facebook_connection", EmptyObj, <<>>,
         IF ~is_connected(LE_CHAT_USER_ID, load_user_data) THEN NotConnected
         ELSE IF page = NoneObj THEN NoPages
         ELSE [status |-> "connected", page_name |-> page.name])

\* src/tools/posting_tools.py with FacebookPosts.post_text / post_image
post_to_facebook_page(image_url, result) ==
    LET page == get_first_page(LE_CHAT_USER_ID, load_user_data)
        e == [image_url |-> image_url, response |-> result]
    IN IF ~is_connected(LE_CHAT_USER_ID, load_user_data)
       THEN Tool("post_to_facebook_page", e, <<>>, NotConnected)
       ELSE IF page = NoneObj
       THEN Tool("post_to_facebook_page", e, <<>>, NoPages)
       ELSE LET q == <<Post(<<page.id, IF image_url # "" THEN "photos" ELSE "feed">>,
                            page.access_token)>>
            IN IF IsRaised(result)
               THEN Tool("post_to_facebook_page", e, q, Failed([exc |-> result.raise]))
               ELSE IF Has(result, "id")
               THEN Tool("post_to_facebook_page", e, q,
                         [status |-> "success", page_name |-> page.name,
                          url |-> PostUrl(result.id)])
               ELSE Tool("post_to_facebook_page", e, q, Failed([whole |-> result]))

\* FacebookAnalytics.get_post_history_summary behind get_facebook_post_history
HistoryRows(data) ==
    [i \in 1..Len(data) |->
        [post_id |-> data[i].post_id, views |-> data[i].analytics.views,
         likes |-> data[i].analytics.likes, clicks |-> data[i].analytics.clicks]]

get_post_history_summary(posts_data, an) ==
    LET page == get_first_page(LE_CHAT_USER_ID, load_user_data)
        e == [posts |-> posts_data, an |-> an]
    IN IF ~is_connected(LE_CHAT_USER_ID, load_user_data)
       THEN Tool("get_post_history_summary", e, <<>>, NotConnected)
       ELSE IF page = NoneObj
       THEN Tool("get_post_history_summary", e, <<>>, NoPages)
       ELSE LET listing == <<Get(<<page.id, "posts">>, page.access_token)>> IN
            IF IsRaised(posts_data)
            THEN Tool("get_post_history_summary", e, listing,
                      Failed([exc |-> posts_data.raise]))
            ELSE IF ~Has(posts_data, "data")
            THEN Tool("get_post_history_summary", e, listing,
                      Failed([whole |-> posts_data]))
            ELSE IF posts_data.data = <<>>
            THEN Tool("get_post_history_summary", e, listing,
                      [status |-> "no_posts", page_name |-> page.name])
            ELSE LET r == FetchLoop(page.access_token, posts_data.data, an, 1)
                 IN Tool("get_post_history_summary", e, listing \o r.reqs,
                         [status |-> "report", page_name |-> page.name,
                          rows |-> HistoryRows(r.data)])

\* FacebookAnalytics.get_detailed_post_analytics behind get_facebook_post_analytics
get_detailed_post_analytics(post_id, a) ==
    LET page == get_first_page(LE_CHAT_USER_ID, load_user_data)
        e == [post_id |-> post_id, an |-> <<a>>]
    IN IF ~is_connected(LE_CHAT_USER_ID, load_user_data)
       THEN Tool("get_detailed_post_analytics", e, <<>>, NotConnected)
       ELSE IF page = NoneObj
       THEN Tool("get_detailed_post_analytics", e, <<>>, NoPages)
       ELSE Tool("get_detailed_post_analytics", e,
                 get_post_analytics_reqs(page.access_token, post_id, a.insights),
                 [status |-> "report", post_id |-> post_id,
                  analytics |-> get_post_analytics(a.insights, a.reactions)])

\* src/tools/analytics_tools.py
get_facebook_analytics_data(posts_data, an) ==
    LET e == [posts |-> posts_data, an |-> an]
        r == fetch_analytics_data(LE_CHAT_USER_ID, load_user_data, posts_data, an)
    IN IF ~is_connected(LE_CHAT_USER_ID, load_user_data)
       THEN Tool("get_facebook_analytics_data", e, <<>>, NotConnected)
       ELSE IF r.data = <<>>
       THEN Tool("get_facebook_analytics_data", e, r.reqs,
                 [status |-> "no_posts_or_error", data |-> <<>>])
       ELSE Tool("get_facebook_analytics_data", e, r.reqs,
                 [status |-> "json", data |-> r.data])

\* ------------------------------------------------------ tools of main.py
main_check_facebook_connection ==
    Tool("main_check_facebook_connection", EmptyObj, <<>>,
         IF LE_CHAT_USER_ID \notin DOMAIN load_user_data THEN NotConnected
         ELSE IF MainPages(LE_CHAT_USER_ID, load_user_data) = <<>> THEN NoPages
         ELSE [status |-> "connected",
               page_name |-> MainPages(LE_CHAT_USER_ID, load_user_data)[1].name])

main_post_to_facebook_page(image_url, result) ==
    LET e == [image_url |-> image_url, response |-> result] IN
    IF LE_CHAT_USER_ID \notin DOMAIN load_user_data
    THEN Tool("main_post_to_facebook_page", e, <<>>, NotConnected)
    ELSE IF MainPages(LE_CHAT_USER_ID, load_user_data) = <<>>
    THEN Tool("main_post_to_facebook_page", e, <<>>, NoPages)
    ELSE LET first_page == MainPages(LE_CHAT_USER_ID, load_user_data)[1]
             q == <<Post(<<first_page.id,
                           IF image_url # "" THEN "photos" ELSE "feed">>,
                         first_page.access_token)>>
         IN IF IsRaised(result)
            THEN Tool("main_post_to_facebook_page", e, q,
                      Failed([exc |-> result.raise]))
            ELSE IF Has(result, "id")
            THEN Tool("main_post_to_facebook_page", e, q,
                      [status |-> "success", page_name |-> first_page.name,
                       url |-> PostUrl(result.id)])
            ELSE Tool("main_post_to_facebook_page", e, q,
                      Failed([msg |-> ErrorMessage(result)]))

main_get_facebook_post_history(posts_data, an) ==
    LET e == [posts |-> posts_data, an |-> an] IN
    IF LE_CHAT_USER_ID \notin DOMAIN load_user_data
    THEN Tool("main_get_facebook_post_history", e, <<>>, NotConnected)
    ELSE IF MainPages(LE_CHAT_USER_ID, load_user_data) = <<>>
    THEN Tool("main_get_facebook_post_history", e, <<>>, NoPages)
    ELSE LET first_page == MainPages(LE_CHAT_USER_ID, load_user_data)[1]
             listing == <<Get(<<first_page.id, "posts">>, first_page.access_token)>>
         IN IF IsRaised(posts_data)
            THEN Tool("main_get_facebook_post_history", e, listing,
                      Failed([exc |-> posts_data.raise]))
            ELSE IF ~Has(posts_data, "data")
            THEN Tool("main_get_facebook_post_history", e, listing,
                      Failed([msg |-> ErrorMessage(posts_data)]))
            ELSE IF posts_data.data = <<>>
            THEN Tool("main_get_facebook_post_history", e, listing,
                      [status |-> "no_posts", page_name |-> first_page.name])
            ELSE LET r == MainFetchLoop(first_page.access_token,
                                        posts_data.data, an, 1)
                 IN Tool("main_get_facebook_post_history", e, listing \o r.reqs,
                         [status |-> "report", page_name |-> first_page.name,
                          rows |-> HistoryRows(r.data)])

main_get_facebook_post_analytics(post_id, a) ==
    LET e == [post_id |-> post_id, an |-> <<a>>] IN
    IF LE_CHAT_USER_ID \notin DOMAIN load_user_data
    THEN Tool("main_get_facebook_post_analytics", e, <<>>, NotConnected)
    ELSE IF MainPages(LE_CHAT_USER_ID, load_user_data) = <<>>
    THEN Tool("main_get_facebook_post_analytics", e, <<>>, NoPages)
    ELSE LET first_page == MainPages(LE_CHAT_USER_ID, load_user_data)[1]
         IN Tool("main_get_facebook_post_analytics", e,
                 <<Get(<<post_id, "insights">>, first_page.access_token)>>,
                 [status |-> "report", post_id |-> post_id,
                  page_name |-> first_page.name,
                  analytics |-> get_post_analytics_internal(post_id, a.insights)])

main_get_facebook_analytics_data(posts_data, an) ==
    LET e == [posts |-> posts_data, an |-> an]
        r == fetch_facebook_analytics_data(LE_CHAT_USER_ID, load_user_data,
                                           posts_data, an)
    IN IF LE_CHAT_USER_ID \notin DOMAIN load_user_data
       THEN Tool("main_get_facebook_analytics_data", e, <<>>, NotConnected)
       ELSE IF r.data = <<>>
       THEN Tool("main_get_facebook_analytics_data", e, r.reqs,
                 [status |-> "no_posts_or_error", data |-> <<>>])
       ELSE Tool("main_get_facebook_analytics_data", e, r.reqs,
                 [status |-> "json", data |-> r.data])

\* ------------------------------------- inputs of the tools in the system
GoodInsights ==
    [data |-> <<[name |-> "post_impressions", values |-> <<[value |-> Num(2)]>>],
                [name |-> ReactionsMetric,
                 values |-> <<[value |-> Map([like |-> 1, love |-> 1])]>>]>>]
GoodAnswer == [insights |-> GoodInsights,
               reactions |-> [summary |-> [total_count |-> 1]]]
FailedAnswer == [insights |-> Raised("ConnectionError"),
                 reactions |-> [summary |-> [total_count |-> 1]]]
SomeAnswers == {GoodAnswer, FailedAnswer}

SomeListing(n) ==
    [i \in 1..n |-> IF i % 2 = 1 THEN TextPost("p1") ELSE PhotoPost("p2")]
SomePostsResponses ==
    {Raised("ConnectionError"), [error |-> [message |-> "expired token"]]}
    \cup {[data |-> SomeListing(n)] : n \in 0..MaxPosts}
ListedCount(posts_data) ==
    IF ~IsRaised(posts_data) /\ Has(posts_data, "data")
    THEN Len(posts_data.data) ELSE 0

CheckConnection == check_facebook_connection
MainCheckConnection == main_check_facebook_connection

PostToPage ==
    \E image_url \in {"", "http://img"}, result \in PostResponses :
        post_to_facebook_page(image_url, result)
MainPostToPage ==
    \E image_url \in {"", "http://img"}, result \in PostResponses :
        main_post_to_facebook_page(image_url, result)

PostHistory ==
    \E posts_data \in SomePostsResponses :
        \E an \in [1..ListedCount(posts_data) -> SomeAnswers] :
            get_post_history_summary(posts_data, an)
MainPostHistory ==
    \E posts_data \in SomePostsResponses :
        \E an \in [1..ListedCount(posts_data) -> SomeAnswers] :
            main_get_facebook_post_history(posts_data, an)

PostAnalytics ==
    \E post_id \in PostIds, a \in SomeAnswers :
        get_detailed_post_analytics(post_id, a)
MainPostAnalytics ==
    \E post_id \in PostIds, a \in SomeAnswers :
        main_get_facebook_post_analytics(post_id, a)

AnalyticsData ==
    \E posts_data \in SomePostsResponses :
        \E an \in [1..ListedCount(posts_data) -> SomeAnswers] :
            get_facebook_analytics_data(posts_data, an)
MainAnalyticsData ==
    \E posts_data \in SomePostsResponses :
        \E an \in [1..ListedCount(posts_data) -> SomeAnswers] :
            main_get_facebook_analytics_data(posts_data, an)

\* ------------------------------------ inputs of a batch analytics fetch
OtherAnswer ==
    [insights |-> [data |-> <<[name |-> "post_impressions",
                               values |-> <<[value |-> Num(1)]>>],
                              [name |-> ReactionsMetric,
                               values |-> <<[value |-> Map([like |-> 2])]>>]>>],
     reactions |-> EmptyObj]
NoReactionsAnswer ==
    [insights |-> GoodInsights, reactions |-> Raised("JSONDecodeError")]
NamelessAnswer ==
    [insights |-> [data |-> <<[name |-> "post_impressions",
                               values |-> <<[value |-> Num(2)]>>],
                              [values |-> <<[value |-> Num(1)]>>]>>],
     reactions |-> [summary |-> [total_count |-> 1]]]
FetchAnswers ==
    {GoodAnswer, OtherAnswer, FailedAnswer, NoReactionsAnswer, NamelessAnswer}

FetchInputs ==
    UNION {{[posts |-> pd, an |-> a] :
               a \in [1..ListedCount(pd) -> FetchAnswers]} : pd \in PostsResponses}

\* the files a callback can have written for user id uid
WrittenFiles(uid) ==
    {EmptyObj}
    \cup {save_user_data(DictSet(EmptyObj, uid,
                                 [facebook_user_id |-> uid,
                                  access_token |-> "ut1", pages |-> ps])) :
             ps \in PageLists}

FetchAnalyticsData ==
    /\ op = "start_fetch"
    /\ LET r == fetch_analytics_data(LE_CHAT_USER_ID, load_user_data,
                                     env.posts, env.an)
       IN Tool("fetch_analytics_data", env, r.reqs, [data |-> r.data])

MainFetchAnalyticsData ==
    /\ op = "start_fetch"
    /\ LET r == fetch_facebook_analytics_data(LE_CHAT_USER_ID, load_user_data,
                                              env.posts, env.an)
       IN Tool("fetch_facebook_analytics_data", env, r.reqs, [data |-> r.data])

\* --------------------------------------------------------- MistralClient
\* the instance attributes MistralClient.__init__ assigns
MistralAttrs == {"api_key", "base_url"}
ErrorStatus == 400                  \* resp.status_code >= 400
AnalysisExcerpt == 400              \* t[:400]

Unparseable == [unparseable |-> TRUE]          \* resp.json() raises
Completion(reply) == [choices |-> <<[message |-> [content |-> reply]]>>]
Statuses == {200, 400, 503}
HttpAnswers(replies) ==
    {Raised("ConnectionError")}
    \cup [status : Statuses,
          body : {Unparseable, EmptyObj} \cup {Completion(r) : r \in replies}]

Returned(value, q) == [out |-> value, reqs |-> q]

chat_complete(api_key, model, http) ==
    IF api_key \in {None, ""}
    THEN Returned(Raised("RuntimeError"), <<>>)
    ELSE IF model \in {None, ""} /\ "default_model" \notin MistralAttrs
    THEN Returned(Raised("AttributeError"), <<>>)
    ELSE IF "timeout" \notin MistralAttrs
    THEN Returned(Raised("AttributeError"), <<>>)
    ELSE LET q == <<Post("chat/completions", api_key)>> IN
         IF IsRaised(http) THEN Returned(http, q)
         ELSE IF http.body = Unparseable
         THEN Returned(Raised(IF http.status >= ErrorStatus
                              THEN "HTTPError" ELSE "JSONDecodeError"), q)
         ELSE IF http.status >= ErrorStatus
         THEN Returned(Raised("RuntimeError"), q)
         ELSE Returned(http.body, q)

\* resp["choices"][0]["message"]["content"]
ReplyOf(resp) ==
    IF ~Has(resp, "choices") THEN Raised("KeyError")
    ELSE IF resp.choices = <<>> THEN Raised("IndexError")
    ELSE [content |-> resp.choices[1].message.content]

\* A reply is a sequence of tokens: the two sentinel lines, a code fence,
\* braces, a chart_config member, a word, a run of whitespace.
Fence == "fence"                   \* a line of three backquotes
Start == "JSON_ONLY_START"
End == "JSON_ONLY_END"
Open == "{"
Close == "}"
Chart == "chart_config: {type: bar}"
Word == "word"
Space == " "
Insights == "insights: [i]"
Tokens == {Fence, Start, End, Open, Close, Chart, Insights, Word, Space}
Replies == UNION {[1..n -> Tokens] : n \in 0..MaxReply}

RECURSIVE LStrip(_)
LStrip(t) == IF t # <<>> /\ t[1] = Space THEN LStrip(Tail(t)) ELSE t
RECURSIVE RStrip(_)
RStrip(t) ==
    IF t # <<>> /\ t[Len(t)] = Space THEN RStrip(SubSeq(t, 1, Len(t) - 1)) ELSE t
Strip(t) == RStrip(LStrip(t))

\* re.sub of the opening fence and [a-zA-Z0-9]*: the letters after the fence
\* go with it, also the letters JSON of a sentinel that follows directly
DropOpeningFence(t) ==
    LET r == Tail(t) IN
    IF r = <<>> THEN r
    ELSE IF r[1] = Word THEN Tail(r)
    ELSE IF r[1] \in {Start, End} THEN <<Word>> \o Tail(r)
    ELSE r

\* re.sub of a closing fence at the end
DropClosingFence(t) ==
    IF t # <<>> /\ t[Len(t)] = Fence THEN SubSeq(t, 1, Len(t) - 1) ELSE t

strip_code_fences(raw) ==
    LET t == Strip(raw) IN
    IF t # <<>> /\ t[1] = Fence THEN DropClosingFence(DropOpeningFence(t)) ELSE t

AllSpace(t, i, j) == \A k \in i..j : t[k] = Space

\* re.search for START, whitespace, a braced group, whitespace, END:
\* the matches <<s, b, c, d>> of sentinel, opening brace, closing brace,
\* sentinel
SentinelMatches(t) ==
    {m \in (1..Len(t)) \X (1..Len(t)) \X (1..Len(t)) \X (1..Len(t)) :
        /\ m[1] < m[2] /\ m[2] < m[3] /\ m[3] < m[4]
        /\ t[m[1]] = Start /\ AllSpace(t, m[1] + 1, m[2] - 1)
        /\ t[m[2]] = Open
        /\ t[m[3]] = Close /\ AllSpace(t, m[3] + 1, m[4] - 1)
        /\ t[m[4]] = End}

\* group 1 of the leftmost match, the greedy .* reaching the last brace
SentinelGroup(t) ==
    LET ms == SentinelMatches(t)
        s == CHOOSE x \in {m[1] : m \in ms} : \A m \in ms : x <= m[1]
        at == {m \in ms : m[1] = s}
        c == CHOOSE x \in {m[3] : m \in at} : \A m \in at : m[3] <= x
        b == CHOOSE x \in {m[2] : m \in at} : TRUE
    IN SubSeq(t, b, c)

\* json.loads of a group
RemoveSpace(t) == SelectSeq(t, LAMBDA x : x # Space)
MemberKey(tok) == IF tok = Chart THEN "chart_config" ELSE "insights"
MemberValue(k) == IF k = "chart_config" THEN [type |-> "bar"] ELSE [list |-> <<"i">>]
json_loads(group) ==
    LET g == RemoveSpace(group)
        inner == SubSeq(g, 2, Len(g) - 1)
    IN IF /\ Len(g) >= 2 /\ g[1] = Open /\ g[Len(g)] = Close
          /\ \A i \in 1..Len(inner) : inner[i] \in {Chart, Insights}
       THEN [k \in {MemberKey(inner[i]) : i \in 1..Len(inner)} |-> MemberValue(k)]
       ELSE Raised("JSONDecodeError")

Excerpt(t, n) == SubSeq(t, 1, IF Len(t) < n THEN Len(t) ELSE n)
QuickChart(config) == <<"https://quickchart.io/chart?c=", config>>

ParseAnalysis(raw) ==
    LET t == strip_code_fences(raw) IN
    IF SentinelMatches(t) = {}
    THEN [raise |-> "ValueError", msg |-> "sentinels not found",
          excerpt |-> Excerpt(t, AnalysisExcerpt)]
    ELSE LET result == json_loads(SentinelGroup(t)) IN
         IF IsRaised(result) THEN result
         ELSE IF ~Has(result, "chart_config") THEN Raised("KeyError")
         ELSE DictSet(result, "chart_url", QuickChart(result.chart_config))

analyze_posts(api_key, http) ==
    LET r == chat_complete(api_key, "mistral-medium-latest", http) IN
    IF IsRaised(r.out) THEN r
    ELSE LET raw == ReplyOf(r.out) IN
         IF IsRaised(raw) THEN Returned(raw, r.reqs)
         ELSE Returned(ParseAnalysis(raw.content), r.reqs)

\* ---------------------------------------- MistralClient.generate_post_copy
\* A copy reply is a sequence of tokens: the four field labels, yes, no,
\* a word, a line break (the only whitespace).
PostText == "POST_TEXT:"
Impact == "IMPACT_ESTIMATE:"
Needed == "IMAGE_NEEDED:"
Bria == "BRIA_PROMPT:"
Yes == "yes"
No == "no"
Break == "\n"
CopyExcerpt == 800                  \* raw[:800]

RECURSIVE LStripBreaks(_)
LStripBreaks(t) == IF t # <<>> /\ t[1] = Break THEN LStripBreaks(Tail(t)) ELSE t
RECURSIVE RStripBreaks(_)
RStripBreaks(t) ==
    IF t # <<>> /\ t[Len(t)] = Break
    THEN RStripBreaks(SubSeq(t, 1, Len(t) - 1)) ELSE t
StripBreaks(t) == RStripBreaks(LStripBreaks(t))
AllBreaks(t, i, j) == \A k \in i..j : t[k] = Break

\* regex.search of the four-field pattern: the matches <<p, i, n, y, b>> of
\* POST_TEXT:, IMPACT_ESTIMATE:, IMAGE_NEEDED:, yes|no and BRIA_PROMPT:
CopyMatches(t) ==
    {m \in (1..Len(t)) \X (1..Len(t)) \X (1..Len(t)) \X (1..Len(t)) \X (1..Len(t)) :
        /\ t[m[1]] = PostText
        /\ t[m[2]] = Impact /\ m[1] < m[2] - 1 /\ t[m[2] - 1] = Break
        /\ t[m[3]] = Needed /\ m[2] < m[3] - 1 /\ t[m[3] - 1] = Break
        /\ t[m[4]] \in {Yes, No} /\ m[3] < m[4] /\ AllBreaks(t, m[3] + 1, m[4] - 1)
        /\ t[m[5]] = Bria /\ m[4] + 1 < m[5] /\ AllBreaks(t, m[4] + 1, m[5] - 1)}

\* leftmost start, then the lazy groups take the nearest labels
Least(S) == CHOOSE x \in S : \A y \in S : x <= y
CopyMatch(t) ==
    LET ms == CopyMatches(t)
        p == Least({m[1] : m \in ms})
        i == Least({m[2] : m \in {x \in ms : x[1] = p}})
        n == Least({m[3] : m \in {x \in ms : x[1] = p /\ x[2] = i}})
    IN CHOOSE m \in ms : m[1] = p /\ m[2] = i /\ m[3] = n

ParseCopy(reply) ==
    LET raw == StripBreaks(reply) IN
    IF CopyMatches(raw) = {}
    THEN [raise |-> "ValueError", msg |-> "did not match the required template",
          excerpt |-> Excerpt(raw, CopyExcerpt)]
    ELSE LET m == CopyMatch(raw)
             out == [post_text |-> StripBreaks(SubSeq(raw, m[1] + 1, m[2] - 1)),
                     impact_estimate |-> StripBreaks(SubSeq(raw, m[2] + 1, m[3] - 1)),
                     image_needed |-> (raw[m[4]] = Yes)]
         IN IF out.image_needed
            THEN [post_text |-> out.post_text,
                  impact_estimate |-> out.impact_estimate,
                  image_needed |-> TRUE,
                  image_prompt |-> StripBreaks(SubSeq(raw, m[5] + 1, Len(raw)))]
            ELSE out

generate_post_copy(api_key, http) ==
    LET r == chat_complete(api_key, "mistral-medium-latest", http) IN
    IF IsRaised(r.out) THEN r
    ELSE LET raw == ReplyOf(r.out) IN
         IF IsRaised(raw) THEN Returned(raw, r.reqs)
         ELSE Returned(ParseCopy(raw.content), r.reqs)

\* ------------------------------------------------ image-generation answer
\* JSON values of the image service: string, list, object (its members in
\* order), null
JStr(x) == [str |-> x]
JList(l) == [list |-> l]
JObj(pairs) == [obj |-> pairs]
JNull == [null |-> TRUE]

PngUrl == "https://x/y.png"
JpgUrl == "https://x/z.jpg?w=1"
PageUrl == "https://x/page"
\* IMG_URL_RE.search(v)
IsImageUrl(v) == v \in {PngUrl, JpgUrl}
Lower(k) == IF k = "URL" THEN "url" ELSE k

RECURSIVE collect_image_urls(_, _)
RECURSIVE CollectMembers(_, _, _)
RECURSIVE CollectItems(_, _, _)
collect_image_urls(obj, found) ==
    IF Has(obj, "null") THEN found
    ELSE IF Has(obj, "obj") THEN CollectMembers(obj.obj, 1, found)
    ELSE IF Has(obj, "list") THEN CollectItems(obj.list, 1, found)
    ELSE IF Has(obj, "str")
    THEN IF IsImageUrl(obj.str) THEN Append(found, obj.str) ELSE found
    ELSE found
CollectMembers(pairs, i, found) ==
    IF i > Len(pairs) THEN found
    ELSE LET k == pairs[i][1]
             v == pairs[i][2]
         IN CollectMembers(pairs, i + 1,
                IF Has(v, "str")
                THEN IF Lower(k) \in {"url", "image_url"} /\ IsImageUrl(v.str)
                     THEN Append(found, v.str)
                     ELSE IF IsImageUrl(v.str) THEN Append(found, v.str)
                     ELSE found
                ELSE collect_image_urls(v, found))
CollectItems(items, i, found) ==
    IF i > Len(items) THEN found
    ELSE CollectItems(items, i + 1, collect_image_urls(items[i], found))

\* [u for u in urls if not (u in seen or seen.add(u))]
RECURSIVE FirstSeen(_, _, _)
FirstSeen(urls, i, seen) ==
    IF i > Len(urls) THEN <<>>
    ELSE IF urls[i] \in seen THEN FirstSeen(urls, i + 1, seen)
    ELSE <<urls[i]>> \o FirstSeen(urls, i + 1, seen \cup {urls[i]})

\* data["result"] when data is an object with that member
Unwrap(data) ==
    IF Has(data, "obj") /\ \E i \in 1..Len(data.obj) : data.obj[i][1] = "result"
    THEN data.obj[CHOOSE i \in 1..Len(data.obj) :
                     /\ data.obj[i][1] = "result"
                     /\ \A j \in 1..Len(data.obj) :
                            data.obj[j][1] = "result" => j <= i][2]
    ELSE data

NestedImage ==
    JObj(<<<<"result",
             JList(<<JObj(<<<<"seed", JStr("hello")>>,
                            <<"urls", JList(<<JStr(PngUrl)>>)>>>>)>>)>>>>)
RepeatedImages == JList(<<JStr(PngUrl), JStr(JpgUrl), JStr(PngUrl)>>)
PageUnderUrl == JObj(<<<<"url", JStr(PageUrl)>>, <<"image_url", JStr(PngUrl)>>>>)
BriaBodies == {NestedImage, RepeatedImages, PageUnderUrl}
BriaAnswers ==
    {Raised("Timeout"), [status |-> 500, text |-> "overloaded", body |-> Unparseable],
     [status |-> 200, text |-> "", body |-> Unparseable]}
    \cup {[status |-> 200, text |-> "json", body |-> b] : b \in BriaBodies}

\* step 4 of post_generation: the image request and what it adds to final
WithImages(final, bria_token, new_post_idea, bria) ==
    LET f == [k \in DOMAIN final \cup {"image_urls"} |->
                 IF k = "image_urls" THEN <<>> ELSE final[k]]
        WithError(e) == [k \in DOMAIN f \cup {"image_error"} |->
                            IF k = "image_error" THEN e ELSE f[k]]
    IN IF bria_token \in {None, ""}
       THEN Returned(WithError(<<"BRIA_API_TOKEN not set">>), <<>>)
       ELSE LET prompt == IF Has(final, "image_prompt") /\ final.image_prompt # <<>>
                          THEN final.image_prompt ELSE new_post_idea
                q == <<[method |-> "POST", url |-> "text-to-image",
                        token |-> bria_token, prompt |-> prompt]>>
            IN IF IsRaised(bria) THEN Returned(WithError(<<bria.raise>>), q)
               ELSE IF bria.status >= ErrorStatus
               THEN Returned(WithError(<<"Bria error", bria.status, bria.text>>), q)
               ELSE IF bria.body = Unparseable
               THEN Returned(WithError(<<"JSONDecodeError">>), q)
               ELSE Returned([f EXCEPT !.image_urls =
                                 FirstSeen(collect_image_urls(Unwrap(bria.body), <<>>),
                                           1, {})], q)

\* ----------------------------------------------------- post_generation
Provenance == [tool |-> "post_generation"]
GenError(step, e) == [error |-> <<step, e>>, provenance |-> Provenance]

post_generation(e) ==
    IF LoadRaises
    THEN Tool("post_generation", e, <<>>, Raised("JSONDecodeError"))
    ELSE IF ~is_connected(LE_CHAT_USER_ID, load_user_data)
    THEN Tool("post_generation", e, <<>>, GenError("Facebook not connected", ""))
    ELSE LET fetched == fetch_analytics_data(LE_CHAT_USER_ID, load_user_data,
                                             e.posts, e.an) IN
         IF fetched.data = <<>>
         THEN Tool("post_generation", e, fetched.reqs,
                   GenError("No posts found or error fetching data.", ""))
         ELSE LET analysis == analyze_posts(e.api_key, e.analysis) IN
              IF IsRaised(analysis.out)
              THEN Tool("post_generation", e, fetched.reqs \o analysis.reqs,
                        GenError("Analysis error", analysis.out.raise))
              ELSE LET final == generate_post_copy(e.api_key, e.copy) IN
                   IF IsRaised(final.out)
                   THEN Tool("post_generation", e,
                             fetched.reqs \o analysis.reqs \o final.reqs,
                             GenError("Generation error", final.out.raise))
                   ELSE LET img == WithImages(final.out, e.bria_token,
                                              e.idea, e.bria)
                        IN Tool("post_generation", e,
                                fetched.reqs \o analysis.reqs \o final.reqs
                                    \o img.reqs,
                                [analysis |-> [chart_url |-> analysis.out.chart_url],
                                 final |-> img.out,
                                 provenance |-> Provenance])

\* replies and answers offered to post_generation
GoodAnalysisReply == <<Start, Space, Open, Chart, Close, Space, End>>
AnalysisReplies == {GoodAnalysisReply, <<Word, Word>>, <<Start, Open, Word, Close, End>>}
GoodCopyReply(needed) ==
    <<PostText, Break, Word, Break, Break, Impact, Break, Word, Break, Break,
      Needed, needed, Break, Bria, Break>> \o
    (IF needed = Yes THEN <<Word>> ELSE <<>>)
CopyReplies == {GoodCopyReply(Yes), GoodCopyReply(No), <<Word>>,
                <<PostText, Break, Word>>}
GenHttp(replies) ==
    {Raised("ConnectionError"), [status |-> 200, body |-> Unparseable],
     [status |-> 503, body |-> EmptyObj]}
    \cup {[status |-> 200, body |-> Completion(r)] : r \in replies}

GenInputs ==
    UNION {[posts : {pd}, an : [1..ListedCount(pd) -> SomeAnswers],
            api_key : {None, "key"},
            analysis : GenHttp(AnalysisReplies), copy : GenHttp(CopyReplies),
            bria_token : {None, "bria"}, bria : BriaAnswers,
            idea : {<<"idea">>}] : pd \in SomePostsResponses}

PostGeneration ==
    /\ op = "start_generation"
    /\ post_generation(env)

ChatComplete ==
    /\ op = "start_llm"
    /\ LET r == chat_complete(env.api_key, "mistral-medium-latest", env.http)
       IN Tool("chat_complete", env, r.reqs, r.out)

AnalyzePosts ==
    /\ op = "start_llm"
    /\ LET r == analyze_posts(env.api_key, env.http)
       IN Tool("analyze_posts", env, r.reqs, r.out)

\* ------------------------------------------------------ chart_tools.py
\* metric values are integers here, so _safe_int leaves them as they are
Metrics == {"views", "likes", "reactions"}
SnippetLen == 60

\* a reactions total that leaves the likes out
extract_metrics_without_likes(post) ==
    LET a == GetOr(post, "analytics", EmptyObj)
        likes == GetOr(a, "likes", 0)
        reactions_meta == GetOr(GetOr(a, "metadata", EmptyObj), "reactions", EmptyObj)
    IN [views |-> GetOr(a, "views", 0),
        likes |-> likes,
        reactions |-> SumValues(reactions_meta)]

extract_metrics(post) ==
    LET a == GetOr(post, "analytics", EmptyObj)
        likes == GetOr(a, "likes", 0)
        reactions_meta == GetOr(GetOr(a, "metadata", EmptyObj), "reactions", EmptyObj)
    IN [views |-> GetOr(a, "views", 0),
        likes |-> likes,
        reactions |-> likes + SumValues(reactions_meta)]

\* str(p.get("post_id", "")) or "?"
PostLabelId(post) ==
    IF GetOr(post, "post_id", "") = "" THEN "?" ELSE post.post_id
ChartLabel(pid) == <<"#", pid>>
\* a text that is a JSON number instead of a string: .strip() raises
NumberText == <<"(number)">>
HasNumberText(posts) ==
    \E i \in 1..Len(posts) : GetOr(posts[i], "text", <<>>) = NumberText
Snippet(post) ==
    LET text == GetOr(post, "text", <<>>) IN
    IF Len(text) > SnippetLen THEN Append(SubSeq(text, 1, SnippetLen), "...")
    ELSE text
ScoredRow(post, metric) ==
    DictSet([post_id |-> PostLabelId(post), snippet |-> Snippet(post)],
            metric, extract_metrics(post)[metric])

build_overview_bar(posts, metric) ==
    IF HasNumberText(posts) THEN Raised("AttributeError") ELSE
    [cfg |-> [type |-> "bar",
              labels |-> [i \in 1..Len(posts) |-> ChartLabel(PostLabelId(posts[i]))],
              data |-> [i \in 1..Len(posts) |-> extract_metrics(posts[i])[metric]],
              label |-> <<"capitalize", metric>>],
     table |-> [i \in 1..Len(posts) |-> ScoredRow(posts[i], metric)]]

\* the values of the posts with (image = TRUE) or without an image, in order
RECURSIVE TypeValues(_, _, _, _)
TypeValues(posts, metric, image, i) ==
    IF i > Len(posts) THEN <<>>
    ELSE (IF (GetOr(posts[i], "has_image", FALSE) = TRUE) = image
          THEN <<extract_metrics(posts[i])[metric]>> ELSE <<>>)
         \o TypeValues(posts, metric, image, i + 1)

RECURSIVE SumSeq(_)
SumSeq(vals) == IF vals = <<>> THEN 0 ELSE vals[1] + SumSeq(Tail(vals))
\* round(_avg(vals), 2), in hundredths
AvgHundredths(vals) ==
    IF vals = <<>> THEN 0
    ELSE (200 * SumSeq(vals) + Len(vals)) \div (2 * Len(vals))

\* a builder whose average divides by the length of an empty list
build_by_type_dividing(posts, metric) ==
    LET img_vals == TypeValues(posts, metric, TRUE, 1)
        txt_vals == TypeValues(posts, metric, FALSE, 1)
        data == <<AvgHundredths(img_vals), AvgHundredths(txt_vals)>>
    IN IF img_vals = <<>> \/ txt_vals = <<>> THEN Raised("ZeroDivisionError")
       ELSE [cfg |-> [type |-> "bar", labels |-> <<"Image", "Text">>,
                      data |-> data, label |-> <<"Avg by type", metric>>],
             table |-> <<[type |-> "Image", avg |-> data[1], count |-> Len(img_vals)],
                         [type |-> "Text", avg |-> data[2], count |-> Len(txt_vals)]>>]

build_by_type(posts, metric) ==
    LET img_vals == TypeValues(posts, metric, TRUE, 1)
        txt_vals == TypeValues(posts, metric, FALSE, 1)
        data == <<AvgHundredths(img_vals), AvgHundredths(txt_vals)>>
    IN [cfg |-> [type |-> "bar", labels |-> <<"Image", "Text">>, data |-> data,
                 label |-> <<"Avg by type", metric>>],
        table |-> <<[type |-> "Image", avg |-> data[1], count |-> Len(img_vals)],
                    [type |-> "Text", avg |-> data[2], count |-> Len(txt_vals)]>>]

\* scored.sort(key=..., reverse=True): rows of equal value keep their order
RECURSIVE InsertRow(_, _, _)
InsertRow(sorted, row, metric) ==
    IF sorted = <<>> THEN <<row>>
    ELSE IF sorted[1][metric] >= row[metric]
    THEN <<sorted[1]>> \o InsertRow(Tail(sorted), row, metric)
    ELSE <<row>> \o sorted
RECURSIVE SortRows(_, _, _)
SortRows(rows, metric, i) ==
    IF i = 0 THEN <<>>
    ELSE InsertRow(SortRows(rows, metric, i - 1), rows[i], metric)

\* a builder that slices the rows without sorting them
build_top_posts_unsorted(posts, metric, top_n) ==
    LET scored == [i \in 1..Len(posts) |-> ScoredRow(posts[i], metric)]
        keep == IF top_n < 1 THEN 1 ELSE top_n
        top == SubSeq(scored, 1, IF Len(scored) < keep THEN Len(scored) ELSE keep)
    IN [cfg |-> [type |-> "bar", indexAxis |-> "y",
                 labels |-> [i \in 1..Len(top) |-> ChartLabel(top[i].post_id)],
                 data |-> [i \in 1..Len(top) |-> top[i][metric]],
                 label |-> <<"Top", Len(top), metric>>],
        table |-> top]

build_top_posts(posts, metric, top_n) ==
    IF HasNumberText(posts) THEN Raised("AttributeError") ELSE
    LET scored == [i \in 1..Len(posts) |-> ScoredRow(posts[i], metric)]
        sorted == SortRows(scored, metric, Len(scored))
        keep == IF top_n < 1 THEN 1 ELSE top_n
        top == SubSeq(sorted, 1, IF Len(sorted) < keep THEN Len(sorted) ELSE keep)
    IN [cfg |-> [type |-> "bar", indexAxis |-> "y",
                 labels |-> [i \in 1..Len(top) |-> ChartLabel(top[i].post_id)],
                 data |-> [i \in 1..Len(top) |-> top[i][metric]],
                 label |-> <<"Top", Len(top), metric>>],
        table |-> top]

\* (metric or "reactions").lower().strip()
NormalMetric(metric) ==
    IF metric = "" THEN "reactions"
    ELSE IF metric = " Views" THEN "views"
    ELSE metric
\* p.strip().lower() of one name of presets_csv
NormalPreset(name) == IF name = " Top_Posts" THEN "top_posts" ELSE name
ValidPresets == {"overview", "by_type", "top_posts"}

\* a filter that keeps the names it does not know
RECURSIVE RequestedPresetsKeepingUnknown(_, _)
RequestedPresetsKeepingUnknown(names, i) ==
    IF i > Len(names) THEN <<>>
    ELSE <<NormalPreset(names[i])>> \o RequestedPresetsKeepingUnknown(names, i + 1)

RECURSIVE RequestedPresets(_, _)
RequestedPresets(names, i) ==
    IF i > Len(names) THEN <<>>
    ELSE (IF NormalPreset(names[i]) \in ValidPresets
          THEN <<NormalPreset(names[i])>> ELSE <<>>)
         \o RequestedPresets(names, i + 1)

BuildPreset(preset, posts, metric, top_n) ==
    IF preset = "overview" THEN build_overview_bar(posts, metric)
    ELSE IF preset = "by_type" THEN build_by_type(posts, metric)
    ELSE build_top_posts(posts, metric, top_n)

ChartProvenance == [tool |-> "generate_charts"]
ChartError(why) == [error |-> why, provenance |-> ChartProvenance]

generate_charts(e) ==
    LET metric == NormalMetric(e.metric) IN
    IF metric \notin Metrics
    THEN Tool("generate_charts", e, <<>>, ChartError("Invalid metric"))
    ELSE IF LoadRaises
    THEN Tool("generate_charts", e, <<>>, Raised("JSONDecodeError"))
    ELSE IF ~is_connected(LE_CHAT_USER_ID, load_user_data)
    THEN Tool("generate_charts", e, <<>>, ChartError("Facebook not connected"))
    ELSE LET fetched == fetch_analytics_data(LE_CHAT_USER_ID, load_user_data,
                                             e.posts, e.an) IN
         IF fetched.data = <<>>
         THEN Tool("generate_charts", e, fetched.reqs,
                   ChartError("No posts found or error fetching data."))
         ELSE LET valid == RequestedPresets(e.presets, 1)
                  presets == IF valid = <<>> THEN <<"overview">> ELSE valid
                  built == [i \in 1..Len(presets) |->
                               BuildPreset(presets[i], fetched.data, metric, e.top_n)]
                  charts == [i \in 1..Len(presets) |->
                                IF IsRaised(built[i])
                                THEN [name |-> presets[i],
                                      error |-> <<"Failed to build", presets[i],
                                                  built[i].raise>>]
                                ELSE IF e.return_configs
                                THEN [name |-> presets[i],
                                      chart_url |-> QuickChart(built[i].cfg),
                                      config |-> built[i].cfg]
                                ELSE [name |-> presets[i],
                                      chart_url |-> QuickChart(built[i].cfg)]]
                  out == [charts |-> charts, provenance |-> ChartProvenance]
              IN Tool("generate_charts", e, fetched.reqs,
                      IF e.include_tables
                      THEN DictSet(out, "tables",
                                   [k \in {presets[i] : i \in {j \in 1..Len(presets) :
                                                               ~IsRaised(built[j])}} |->
                                       built[CHOOSE i \in 1..Len(presets) :
                                                 /\ presets[i] = k
                                                 /\ \A j \in 1..Len(presets) :
                                                        presets[j] = k => j <= i].table])
                      ELSE out)

\* -------------------------------------------------- suggest_facebook_post
\* MistralClient._call_mistral_api inside generate_post_suggestion: one POST,
\* its failures and a body without choices become an error text
generate_post_suggestion(api_key, http) ==
    Returned(IF IsRaised(http) THEN [error |-> http.raise]
             ELSE IF http.body = Unparseable THEN [error |-> "JSONDecodeError"]
             ELSE IF IsRaised(ReplyOf(http.body))
             THEN [error |-> "no suggestion"]
             ELSE [text |-> ReplyOf(http.body).content],
             <<Post("chat/completions", api_key)>>)

Suggestion(data, s) == [status |-> "suggestion", based_on |-> Len(data), suggestion |-> s]

\* src/tools/ai_tools.py
suggest_facebook_post(e) ==
    IF ~is_connected(LE_CHAT_USER_ID, load_user_data)
    THEN Tool("suggest_facebook_post", e, <<>>, NotConnected)
    ELSE LET fetched == IF e.use_analytics
                        THEN fetch_analytics_data(LE_CHAT_USER_ID, load_user_data,
                                                  e.posts, e.an)
                        ELSE [data |-> <<>>, reqs |-> <<>>]
             s == generate_post_suggestion(e.api_key, e.http)
         IN Tool("suggest_facebook_post", e, fetched.reqs \o s.reqs,
                 Suggestion(fetched.data, s.out))

\* main.py, with generate_post_suggestion_with_mistral
main_suggest_facebook_post(e) ==
    IF LE_CHAT_USER_ID \notin DOMAIN load_user_data
    THEN Tool("main_suggest_facebook_post", e, <<>>, NotConnected)
    ELSE LET fetched == IF e.use_analytics
                        THEN fetch_facebook_analytics_data(LE_CHAT_USER_ID,
                                 load_user_data, e.posts, e.an)
                        ELSE [data |-> <<>>, reqs |-> <<>>]
             s == generate_post_suggestion(e.api_key, e.http)
         IN Tool("main_suggest_facebook_post", e, fetched.reqs \o s.reqs,
                 Suggestion(fetched.data, s.out))

\* FacebookClient.get_auth_url behind get_facebook_auth_url
get_facebook_auth_url ==
    Tool("get_facebook_auth_url", EmptyObj, <<>>,
         [status |-> "auth_url", state |-> LE_CHAT_USER_ID])

\* replies around the four-field template: the template itself, and the
\* template with one token dropped or one word put in
DropAt(t, i) == SubSeq(t, 1, i - 1) \o SubSeq(t, i + 1, Len(t))
PutAt(t, i, x) == SubSeq(t, 1, i - 1) \o <<x>> \o SubSeq(t, i, Len(t))
CopyVariants ==
    UNION {{t} \cup {DropAt(t, i) : i \in 1..Len(t)}
               \cup {PutAt(t, i, Word) : i \in 1..(Len(t) + 1)} :
           t \in {GoodCopyReply(Yes), GoodCopyReply(No)}}

GeneratePostCopy ==
    /\ op = "start_copy"
    /\ LET r == generate_post_copy(env.api_key, env.http)
       IN Tool("generate_post_copy", env, r.reqs, r.out)

\* the two extractors applied to one pair of upstream answers
GetPostAnalytics ==
    /\ op = "start_metrics"
    /\ op' = "get_post_analytics"
    /\ reqs' = get_post_analytics_reqs("tA", "p1", env.insights)
    /\ ret' = get_post_analytics(env.insights, env.reactions)
    /\ UNCHANGED <<LE_CHAT_USER_ID, file, lastWrite, env>>

GetPostAnalyticsInternal ==
    /\ op = "start_metrics"
    /\ op' = "get_post_analytics_internal"
    /\ reqs' = <<Get(<<"p1", "insights">>, "tA")>>
    /\ ret' = get_post_analytics_internal("p1", env.insights)
    /\ UNCHANGED <<LE_CHAT_USER_ID, file, lastWrite, env>>

\* ---------------------------------------------------------------- system
OtherRecord == [access_token |-> "ut0", pages |-> <<PageB>>]

Init ==
    /\ LE_CHAT_USER_ID \in UserIds
    /\ file \in {EmptyObj, [k \in {"u2"} |-> OtherRecord]}
    /\ lastWrite = NoneObj
    /\ op = "start"
    /\ env = EmptyObj
    /\ reqs = <<>>
    /\ ret = EmptyObj

Next ==
    \/ Callback
    \/ CheckConnection
    \/ MainCheckConnection
    \/ PostToPage
    \/ MainPostToPage
    \/ PostHistory
    \/ MainPostHistory
    \/ PostAnalytics
    \/ MainPostAnalytics
    \/ AnalyticsData
    \/ MainAnalyticsData

Spec == Init /\ [][Next]_vars

\* the metrics extractors over every shape of the two upstream answers
InitMetrics ==
    /\ LE_CHAT_USER_ID = "u1"
    /\ file = EmptyObj
    /\ lastWrite = NoneObj
    /\ op = "start_metrics"
    /\ env \in [insights : InsightsResponses, reactions : ReactionsResponses]
    /\ reqs = <<>>
    /\ ret = EmptyObj

NextMetrics ==
    \/ GetPostAnalytics
    \/ GetPostAnalyticsInternal

SpecMetrics == InitMetrics /\ [][NextMetrics]_vars

\* one batch fetch over every listing and every per-post outcome
InitFetch ==
    /\ LE_CHAT_USER_ID = "u1"
    /\ file \in WrittenFiles(LE_CHAT_USER_ID)
    /\ lastWrite = NoneObj
    /\ op = "start_fetch"
    /\ env \in FetchInputs
    /\ reqs = <<>>
    /\ ret = EmptyObj

NextFetch ==
    \/ FetchAnalyticsData
    \/ MainFetchAnalyticsData

SpecFetch == InitFetch /\ [][NextFetch]_vars

\* the language-model client over every upstream answer and reply
ApiKeys == {None, "key"}             \* os.getenv("MISTRAL_API_KEY")

InitGen ==
    /\ LE_CHAT_USER_ID = "u1"
    /\ lastWrite = NoneObj
    /\ reqs = <<>>
    /\ ret = EmptyObj
    /\ \/ /\ op = "start_llm"
          /\ file = EmptyObj
          /\ env \in [api_key : ApiKeys, http : HttpAnswers(Replies)]
       \/ /\ op = "start_copy"
          /\ file = EmptyObj
          /\ env \in [api_key : ApiKeys, http : GenHttp(CopyVariants)]
       \/ /\ op = "start_generation"
          /\ file \in WrittenFiles(LE_CHAT_USER_ID)
          /\ env \in GenInputs

NextGen ==
    \/ ChatComplete
    \/ AnalyzePosts
    \/ GeneratePostCopy
    \/ PostGeneration

SpecGen == InitGen /\ [][NextGen]_vars

\* every tool, called once on a credential file that a callback wrote or
\* that cannot be read
ToolFiles(uid) == WrittenFiles(uid) \cup {Unreadable}
NumberPost(id) == [id |-> id, created_time |-> <<"t", id>>, message |-> NumberText]
ChartPostsResponses ==
    SomePostsResponses
    \cup {[data |-> SomeListing(n) \o <<NumberPost("p2")>>] : n \in 0..(MaxPosts - 1)}
ChartInputs ==
    UNION {[metric : {"views", "", " Views", "shares"},
            presets : {<<>>, <<"overview">>, <<"by_type", "pie", " Top_Posts">>,
                       <<"top_posts", "overview">>},
            top_n : 1..MaxPosts, include_tables : BOOLEAN,
            return_configs : BOOLEAN,
            posts : {pd}, an : [1..ListedCount(pd) -> SomeAnswers]] :
           pd \in ChartPostsResponses}
SuggestInputs ==
    UNION {[use_analytics : BOOLEAN, api_key : ApiKeys,
            http : GenHttp({<<Word>>}),
            posts : {pd}, an : [1..ListedCount(pd) -> SomeAnswers]] :
           pd \in SomePostsResponses}

\* a tool whose whole body sits in try/except turns the failed load into
\* its error text
Wrapped(name, tool) ==
    /\ op = "start_tools"
    /\ IF LoadRaises
       THEN Tool(name, EmptyObj, <<>>, Failed([exc |-> "JSONDecodeError"]))
       ELSE tool

InitTools ==
    /\ LE_CHAT_USER_ID \in UserIds
    /\ file \in ToolFiles(LE_CHAT_USER_ID)
    /\ lastWrite = NoneObj
    /\ op = "start_tools"
    /\ env = EmptyObj
    /\ reqs = <<>>
    /\ ret = EmptyObj

AuthTools ==
    \/ op = "start_tools" /\ get_facebook_auth_url
    \/ Wrapped("check_facebook_connection", CheckConnection)
    \/ Wrapped("main_check_facebook_connection", MainCheckConnection)
PostingTools ==
    \/ Wrapped("post_to_facebook_page", PostToPage)
    \/ Wrapped("main_post_to_facebook_page", MainPostToPage)
AnalyticsTools ==
    \/ Wrapped("get_post_history_summary", PostHistory)
    \/ Wrapped("main_get_facebook_post_history", MainPostHistory)
    \/ Wrapped("get_detailed_post_analytics", PostAnalytics)
    \/ Wrapped("main_get_facebook_post_analytics", MainPostAnalytics)
    \/ Wrapped("get_facebook_analytics_data", AnalyticsData)
    \/ Wrapped("main_get_facebook_analytics_data", MainAnalyticsData)
SuggestTools ==
    \/ Wrapped("suggest_facebook_post",
               \E e \in SuggestInputs : suggest_facebook_post(e))
    \/ Wrapped("main_suggest_facebook_post",
               \E e \in SuggestInputs : main_suggest_facebook_post(e))
GenerateCharts ==
    /\ op = "start_tools"
    /\ \E e \in ChartInputs : generate_charts(e)
ToolPostGeneration ==
    /\ op = "start_tools"
    /\ \E e \in GenInputs : post_generation(e)

NextTools ==
    \/ AuthTools
    \/ PostingTools
    \/ AnalyticsTools
    \/ SuggestTools
    \/ GenerateCharts
    \/ ToolPostGeneration

SpecTools == InitTools /\ [][NextTools]_vars

\* ======================================================== claims C1 - C4
StoredPages ==
    IF LE_CHAT_USER_ID \in DOMAIN file /\ Has(file[LE_CHAT_USER_ID], "pages")
    THEN file[LE_CHAT_USER_ID].pages ELSE <<>>

\* C1: after a callback whose token exchange returned an access_token and
\* whose page listing returned a non-empty list, is_connected() is true and
\* get_first_page() is the first element of that list until the next write,
\* for every admitted value of the fixed user id, an unset one included.
C1_StoredConnectionRetrievable ==
    (lastWrite # NoneObj /\ lastWrite.pages # <<>>) =>
        /\ is_connected(LE_CHAT_USER_ID, load_user_data)
        /\ get_first_page(LE_CHAT_USER_ID, load_user_data) = lastWrite.pages[1]

\* C2: is_connected() is true if and only if the fixed user id is a key of
\* the stored mapping and its record has a non-empty pages list; so
\* is_connected() implies that get_first_page() is not None.
C2_ConnectedIffNonEmptyPages ==
    /\ is_connected(LE_CHAT_USER_ID, load_user_data) <=> StoredPages # <<>>
    /\ is_connected(LE_CHAT_USER_ID, load_user_data) =>
           get_first_page(LE_CHAT_USER_ID, load_user_data) # NoneObj

PageOps ==
    {"post_to_facebook_page", "main_post_to_facebook_page",
     "get_post_history_summary", "main_get_facebook_post_history",
     "get_detailed_post_analytics", "main_get_facebook_post_analytics",
     "get_facebook_analytics_data", "main_get_facebook_analytics_data"}

UsesPageId(r) == r.url[2] \in {"feed", "photos", "posts"}

\* C3: with k >= 1 stored pages, every operation that posts or reads page
\* content issues its requests with the token and the id of the page at
\* index 0 and names that same page in its answer; with no stored page it
\* issues no request at all.
C3_FirstPageOnly ==
    op \in PageOps =>
        IF StoredPages = <<>>
        THEN reqs = <<>> /\ ~Has(ret, "page_name")
        ELSE /\ reqs # <<>>
             /\ \A i \in 1..Len(reqs) :
                    /\ reqs[i].token = StoredPages[1].access_token
                    /\ UsesPageId(reqs[i]) => reqs[i].url[1] = StoredPages[1].id
             /\ Has(ret, "page_name") => ret.page_name = StoredPages[1].name

\* a post through a connection that stores two different pages
C3_Witness ==
    /\ op \in {"post_to_facebook_page", "main_post_to_facebook_page"}
    /\ Len(StoredPages) = 2
    /\ StoredPages[1] # StoredPages[2]
    /\ ret.status = "success"
    /\ ret.page_name = StoredPages[1].name

PostOps == {"post_to_facebook_page", "main_post_to_facebook_page"}

SurfacesUpstream(r, body) ==
    /\ Has(r, "embeds")
    /\ \/ r.embeds = [whole |-> body]
       \/ /\ Has(body, "error")
          /\ Has(body.error, "message")
          /\ r.embeds = [msg |-> body.error.message]

\* C4: the post operation returns success with the URL
\* https://www.facebook.com/<id> if and only if the response to its single
\* POST has an id field; for every other response it returns an error that
\* contains the upstream error message or the whole body; it makes no POST
\* when the user is not connected or has no page.
C4_PostSuccessIffId ==
    op \in PostOps =>
        /\ Len(reqs) <= 1
        /\ (ret.status = "success") <=>
               (reqs # <<>> /\ ~IsRaised(env.response) /\ Has(env.response, "id"))
        /\ ret.status = "success" => ret.url = PostUrl(env.response.id)
        /\ (reqs # <<>> /\ ~IsRaised(env.response) /\ ~Has(env.response, "id")) =>
               ret.status = "error" /\ SurfacesUpstream(ret, env.response)
        /\ (reqs = <<>>) <=> (ret \in {NotConnected, NoPages})

\* ======================================================== claims C5 - C6
MetricOps == {"get_post_analytics", "get_post_analytics_internal"}

InsightsData ==
    IF ~IsRaised(env.insights) /\ Has(env.insights, "data")
    THEN env.insights.data ELSE <<>>

NoValues(m) == ~Has(m, "values") \/ m.values = <<>>
BareReactions(m) ==
    /\ Has(m, "name") /\ m.name = ReactionsMetric
    /\ ~NoValues(m) /\ ~IsDict(m.values[1].value)

\* the shapes the claim lists as malformed or missing
Malformed ==
    \/ IsRaised(env.insights) \/ IsRaised(env.reactions)
    \/ ~Has(env.insights, "data")
    \/ \E i \in 1..Len(InsightsData) :
           \/ ~Has(InsightsData[i], "name")
           \/ NoValues(InsightsData[i])
           \/ BareReactions(InsightsData[i])

AllZero(r) ==
    /\ r.views = 0 /\ r.likes = 0 /\ r.clicks = 0
    /\ GetOr(r, "engaged_users", 0) = 0

BreaksExtractor(m) ==
    \/ ~Has(m, "name")
    \/ /\ m.name \in SimpleMetrics \cup {ReactionsMetric}
       /\ NoValues(m) \/ BareReactions(m)
ExtractorFails ==
    \/ IsRaised(env.insights) \/ IsRaised(env.reactions)
    \/ \E i \in 1..Len(InsightsData) : BreaksExtractor(InsightsData[i])

\* the shapes on which get_post_analytics_internal gives its error record
InternalFails ==
    \/ IsRaised(env.insights)
    \/ ~Has(env.insights, "data")
    \/ \E i \in 1..Len(InsightsData) :
           ~NoValues(InsightsData[i]) /\ ~Has(InsightsData[i], "name")

TotalCountOr(d) ==
    IF HasTotalCount(env.reactions) THEN env.reactions.summary.total_count ELSE d

\* value of the last entry called name that carries a value, d without one
LastValue(name, d) ==
    LET idx == {i \in 1..Len(InsightsData) :
                   /\ Has(InsightsData[i], "name")
                   /\ InsightsData[i].name = name
                   /\ ~NoValues(InsightsData[i])}
    IN IF idx = {} THEN d
       ELSE InsightsData[CHOOSE i \in idx : \A j \in idx : j <= i].values[1].value

LastReactions == LastValue(ReactionsMetric, Map(EmptyObj))
InsightsSum ==
    IF IsDict(LastReactions) THEN SumValues(LastReactions.map) ELSE 0

Listed == IF ~IsRaised(env.posts) /\ Has(env.posts, "data")
          THEN env.posts.data ELSE <<>>

\* the per-post fetch fails: a request raises or the loop over the
\* insights entries does
FetchFailed(a) == a \in {FailedAnswer, NoReactionsAnswer, NamelessAnswer}
FetchedViews(a) == IF a = GoodAnswer THEN 2 ELSE 1
FetchedLikes(a) == IF a = GoodAnswer THEN 1 ELSE 2

PostCount == Cardinality({i \in 1..Len(reqs) : reqs[i].method = "POST"})

ConnectionStep == is_connected(LE_CHAT_USER_ID, file)
FetchStep ==
    /\ ConnectionStep
    /\ fetch_analytics_data(LE_CHAT_USER_ID, file, env.posts, env.an).data # <<>>
\* the chat-completion service answers the analysis request with a reply
\* that holds the sentinel-delimited object
AnalysisStep ==
    /\ FetchStep
    /\ env.api_key # None
    /\ env.analysis = [status |-> 200, body |-> Completion(GoodAnalysisReply)]
\* and answers the copy request with a reply in the four-field template
CopyStep ==
    /\ AnalysisStep
    /\ env.copy \in {[status |-> 200, body |-> Completion(GoodCopyReply(n))] :
                        n \in {Yes, No}}

\* C8: post_generation runs connection check, analytics fetch,
\* analyze_posts, generate_post_copy, image generation in that order; it
\* returns an object with keys analysis, final and provenance exactly when
\* the first four steps all succeeded, and when one of them fails it returns
\* an object with an error field and provenance and makes none of the later
\* steps' upstream calls.
C8_StepsInOrderThenResult ==
    (op = "post_generation") =>
        /\ Has(ret, "provenance")
        /\ (Has(ret, "analysis") /\ Has(ret, "final")) <=> CopyStep
        /\ ~CopyStep => Has(ret, "error")
        /\ ~ConnectionStep => reqs = <<>>
        /\ ~FetchStep => PostCount = 0
        /\ ~AnalysisStep => PostCount <= 1
        /\ ~CopyStep => PostCount <= 2

\* ======================================================= claims C9 - C10
HttpOk == ~IsRaised(env.http) /\ env.http.status < ErrorStatus
HttpParses == ~IsRaised(env.http) /\ env.http.body # Unparseable

\* C9: chat_complete, called with an API key set, makes exactly one POST;
\* it returns the parsed JSON body whenever the status is below 400 and the
\* body parses, and raises when the status is 400 or above or the body is
\* unparseable.
C9_OnePostThenBodyOrRaise ==
    (op = "chat_complete" /\ env.api_key # None) =>
        /\ Len(reqs) = 1
        /\ reqs[1].method = "POST"
        /\ (HttpOk /\ HttpParses) => ret = env.http.body
        /\ ~(HttpOk /\ HttpParses) => IsRaised(ret)

HasReply ==
    /\ HttpOk /\ HttpParses
    /\ Has(env.http.body, "choices")

ModelReply == env.http.body.choices[1].message.content

\* the reply holds an object between the two sentinels
SentinelJson(t) ==
    \E s, b, c, d \in 1..Len(t) :
        /\ s < b /\ b < c /\ c < d
        /\ t[s] = Start /\ AllSpace(t, s + 1, b - 1)
        /\ t[d] = End /\ AllSpace(t, c + 1, d - 1)
        /\ ~IsRaised(json_loads(SubSeq(t, b, c)))

\* C10: whenever the model reply holds no JSON object between the
\* JSON_ONLY_START and JSON_ONLY_END sentinels, analyze_posts raises a
\* parsing error whose message contains "sentinels not found" and the first
\* 400 characters of the reply, and returns no result.
C10_MissingSentinelsRaiseParsingError ==
    (op = "analyze_posts" /\ env.api_key # None /\ HasReply
        /\ ~SentinelJson(ModelReply)) =>
        /\ IsRaised(ret)
        /\ Has(ret, "msg")
        /\ ret.msg = "sentinels not found"
        /\ ret.excerpt = Excerpt(ModelReply, AnalysisExcerpt)

\* ============================================================ claim C11
\* the object the model put between the sentinels
SentinelObject(t) == json_loads(SentinelGroup(strip_code_fences(t)))

\* C11: whenever the model reply holds a JSON object between the two
\* sentinels, analyze_posts returns that object with one added key
\* chart_url, the QuickChart URL of the object's chart_config; every other
\* key of the object is returned unchanged.
C11_ObjectReturnedWithChartUrl ==
    (op = "analyze_posts" /\ env.api_key # None /\ HasReply
        /\ SentinelJson(ModelReply)) =>
        /\ ~IsRaised(ret)
        /\ DOMAIN ret = DOMAIN SentinelObject(ModelReply) \cup {"chart_url"}
        /\ ret.chart_url = QuickChart(SentinelObject(ModelReply).chart_config)
        /\ \A k \in DOMAIN SentinelObject(ModelReply) :
               ret[k] = SentinelObject(ModelReply)[k]

\* ============================================================ claim C12
\* the reply is the four-field template and nothing else
ExactTemplate(t) ==
    LET raw == StripBreaks(t) IN
    \E m \in CopyMatches(raw) :
        /\ m[1] = 1
        /\ \A i \in (m[1] + 1)..(m[2] - 1) : raw[i] \in {Word, Break}
        /\ \A i \in (m[2] + 1)..(m[3] - 1) : raw[i] \in {Word, Break}
        /\ \A i \in (m[5] + 1)..Len(raw) : raw[i] \in {Word, Break}

\* C12: generate_post_copy raises a descriptive error carrying at most the
\* first 800 characters of the reply whenever the reply is not exactly the
\* four-field template; when it is, it returns post_text, impact_estimate
\* and image_needed, with image_prompt present iff image_needed is yes.
C12_TemplateOrDescriptiveError ==
    (op = "generate_post_copy" /\ env.api_key # None /\ HasReply) =>
        IF ExactTemplate(ModelReply)
        THEN /\ ~IsRaised(ret)
             /\ {"post_text", "impact_estimate", "image_needed"} \subseteq DOMAIN ret
             /\ Has(ret, "image_prompt") <=> ret.image_needed
        ELSE /\ IsRaised(ret)
             /\ Has(ret, "excerpt")
             /\ ret.excerpt = Excerpt(StripBreaks(ModelReply), CopyExcerpt)

\* ============================================================ claim C13
ToolOps ==
    {"get_facebook_auth_url", "check_facebook_connection",
     "main_check_facebook_connection", "post_to_facebook_page",
     "main_post_to_facebook_page", "get_post_history_summary",
     "main_get_facebook_post_history", "get_detailed_post_analytics",
     "main_get_facebook_post_analytics", "get_facebook_analytics_data",
     "main_get_facebook_analytics_data", "suggest_facebook_post",
     "main_suggest_facebook_post", "generate_charts", "post_generation"}

\* C13: every exposed tool returns a string for every input and every state
\* of the credential file, an unreadable or malformed file and any upstream
\* failure included; no exception propagates out of a tool.
C13_ToolsAlwaysReturnText ==
    (op \in ToolOps) => ~IsRaised(ret)

\* ============================================================ claim C14
CallbackStored == op = "facebook_callback" /\ ret.page = "Facebook Authorization Complete"
StoredKey == JsonKey(LE_CHAT_USER_ID)
\* the record the callback built from the answers it received
BuiltRecord ==
    [facebook_user_id |-> LE_CHAT_USER_ID,
     access_token |-> env.token.access_token,
     pages |-> env.pages.data]

\* C14: after every successful callback the record stored under the fixed
\* user id is exactly the record built by that callback, no field of an
\* earlier record surviving, and the entries under every other key of the
\* mapping are the ones the file held before the write.
C14_ReconnectOverwritesWholesale ==
    [][CallbackStored' =>
          /\ DOMAIN file' = DOMAIN file \cup {StoredKey}
          /\ file'[StoredKey] = BuiltRecord'
          /\ \A k \in DOMAIN file \ {StoredKey} : file'[k] = file[k]]_vars

\* a reconnect: the stored record is the latest one, with pages other than
\* those of the record before it, next to another user's untouched entry
C14_Witness ==
    /\ CallbackStored
    /\ lastWrite = BuiltRecord
    /\ file[StoredKey] = BuiltRecord
    /\ BuiltRecord.access_token = "ut2"
    /\ BuiltRecord.pages = <<PageB, PageA>>
    /\ "u2" \in DOMAIN file
    /\ file["u2"] = OtherRecord

\* ============================================================ claim C15
\* the mapping the callback hands to save_user_data
SavedMapping == DictSet(file, LE_CHAT_USER_ID, BuiltRecord')

\* C15: for every mapping m the system stores, save_user_data(m) followed
\* by load_user_data() returns a mapping identical to m, and saving the
\* loaded mapping again leaves the file content unchanged.
C15_SaveLoadRoundTrip ==
    [][CallbackStored' =>
          /\ load_user_data' = SavedMapping
          /\ save_user_data(load_user_data') = file']_vars

\* ============================================================ claim C16
\* FacebookClient.get_first_page and is_connected over every stored mapping
StoredRecords ==
    {[access_token |-> "ut1"]}
    \cup {[access_token |-> "ut1", pages |-> ps] : ps \in PageLists}

StoredMappings ==
    UNION {[ks -> StoredRecords] : ks \in SUBSET {"u1", "u2", "null"}}

\* a lookup that indexes the record and its list without looking first
GetFirstPageUnguarded ==
    /\ op = "start_client"
    /\ Tool("get_first_page", EmptyObj, <<>>,
            IF ~Has(load_user_data, LE_CHAT_USER_ID) THEN Raised("KeyError")
            ELSE IF ~Has(load_user_data[LE_CHAT_USER_ID], "pages")
            THEN Raised("KeyError")
            ELSE IF load_user_data[LE_CHAT_USER_ID].pages = <<>>
            THEN Raised("IndexError")
            ELSE load_user_data[LE_CHAT_USER_ID].pages[1])

GetFirstPage ==
    /\ op = "start_client"
    /\ Tool("get_first_page", EmptyObj, <<>>,
            get_first_page(LE_CHAT_USER_ID, load_user_data))

IsConnected ==
    /\ op = "start_client"
    /\ Tool("is_connected", EmptyObj, <<>>,
            [connected |-> is_connected(LE_CHAT_USER_ID, load_user_data)])

InitClient ==
    /\ LE_CHAT_USER_ID \in UserIds
    /\ file \in StoredMappings
    /\ lastWrite = NoneObj
    /\ op = "start_client"
    /\ env = EmptyObj
    /\ reqs = <<>>
    /\ ret = EmptyObj

NextClient ==
    \/ GetFirstPage
    \/ IsConnected

SpecClient == InitClient /\ [][NextClient]_vars

UserAbsent == ~Has(file, LE_CHAT_USER_ID)
NoPagesKey == ~UserAbsent /\ ~Has(file[LE_CHAT_USER_ID], "pages")
EmptyPages ==
    ~UserAbsent /\ ~NoPagesKey /\ file[LE_CHAT_USER_ID].pages = <<>>

\* C16: get_first_page returns None when the fixed user id is absent from
\* the stored mapping, when its record has no pages key, or when its pages
\* list is empty, and returns pages[0] otherwise; it never raises an index
\* or key error for any stored mapping.
C16_FirstPageOrNone ==
    (op = "get_first_page") =>
        /\ ~IsRaised(ret)
        /\ IF UserAbsent \/ NoPagesKey \/ EmptyPages
           THEN ret = NoneObj
           ELSE ret = file[LE_CHAT_USER_ID].pages[1]

\* the lookup ran on a record whose two stored pages differ, next to a
\* record of another user and a record written under the key "null"
C16_Witness ==
    /\ op = "get_first_page"
    /\ LE_CHAT_USER_ID = "u1"
    /\ DOMAIN file = {"u1", "u2", "null"}
    /\ Has(file["u1"], "pages")
    /\ file["u1"].pages = <<PageB, PageA>>
    /\ ret = PageB

\* ============================================================ claim C17
ErrorMarked(record) ==
    /\ Has(record, "metadata")
    /\ Has(record.metadata, "lastUpdated")
    /\ record.metadata.lastUpdated = "error"

\* C17: every all-zero record that get_post_analytics returns because of a
\* network or shape failure carries the marker lastUpdated = "error", and
\* no record built from a successfully processed response carries it.
C17_ErrorRecordsAreMarked ==
    /\ op = "get_post_analytics" => (ErrorMarked(ret) <=> ExtractorFails)
    /\ op = "get_post_analytics_internal" =>
           (ErrorMarked(ret) <=> InternalFails)

\* ============================================================ claim C18
\* _collect_image_urls over nested objects, arrays, strings and nulls
MaxDepth == 2
ImageStrings == {PngUrl, JpgUrl, PageUrl, "hello"}
ImageKeys == {"url", "image_url", "URL", "seed"}
Leaves == {JStr(x) : x \in ImageStrings} \cup {JNull}

RECURSIVE Nested(_)
Nested(d) ==
    IF d = 0 THEN Leaves
    ELSE LET inner == Nested(d - 1)
         IN inner
            \cup {JObj(<<<<k, v>>>>) : k \in ImageKeys, v \in inner}
            \cup {JList(<<v>>) : v \in inner}

DeepImage ==
    JObj(<<<<"seed", JStr("hello")>>,
           <<"data", JObj(<<<<"note", JStr(PageUrl)>>,
                            <<"images",
                              JList(<<JStr("hello"),
                                      JObj(<<<<"image_url", JStr(PngUrl)>>>>)>>)>>>>)>>>>)

ImageBodies ==
    Nested(MaxDepth)
    \cup {JList(<<a, b, c>>) : a \in Leaves, b \in Leaves, c \in Leaves}
    \cup {JObj(<<<<"result", a>>, <<"url", b>>>>) : a \in Nested(1), b \in Leaves}
    \cup {JObj(<<<<"image_url", b>>, <<"items", a>>>>) : a \in Nested(1), b \in Leaves}
    \cup BriaBodies \cup {DeepImage}

CollectImageUrls ==
    /\ op = "start_images"
    /\ Tool("_collect_image_urls", env, <<>>,
            [found |-> collect_image_urls(env.body, <<>>)])

\* post_generation step 4 on a parsed answer: unwrap, collect, deduplicate
ImageUrls ==
    /\ op = "start_images"
    /\ Tool("image_urls", env, <<>>,
            [image_urls |->
                FirstSeen(collect_image_urls(Unwrap(env.body), <<>>), 1, {})])

InitImages ==
    /\ LE_CHAT_USER_ID = "u1"
    /\ file = EmptyObj
    /\ lastWrite = NoneObj
    /\ op = "start_images"
    /\ env \in [body : ImageBodies]
    /\ reqs = <<>>
    /\ ret = EmptyObj

NextImages ==
    \/ CollectImageUrls
    \/ ImageUrls

SpecImages == InitImages /\ [][NextImages]_vars

\* the strings the claim says are collected: under a key named url or
\* image_url, or matching the image pattern
RECURSIVE ClaimedStrings(_, _)
ClaimedStrings(v, keyed) ==
    IF Has(v, "str")
    THEN IF keyed \/ IsImageUrl(v.str) THEN {v.str} ELSE {}
    ELSE IF Has(v, "obj")
    THEN UNION {ClaimedStrings(v.obj[i][2],
                               Lower(v.obj[i][1]) \in {"url", "image_url"}) :
                i \in 1..Len(v.obj)}
    ELSE IF Has(v, "list")
    THEN UNION {ClaimedStrings(v.list[i], FALSE) : i \in 1..Len(v.list)}
    ELSE {}

\* C18: _collect_image_urls, applied to any nested structure of objects,
\* arrays and strings, collects a string if and only if it sits under a
\* key named url or image_url or it matches the image-file-extension URL
\* pattern; strings that meet neither condition are never collected.
C18_CollectedIffKeyedOrMatching ==
    (op = "_collect_image_urls") =>
        {ret.found[i] : i \in 1..Len(ret.found)}
            = ClaimedStrings(env.body, FALSE)

\* ============================================================ claim C19
\* the copy step asked for an image and the image service answered with a
\* parsed body
ImageStep ==
    /\ CopyStep
    /\ env.copy = [status |-> 200, body |-> Completion(GoodCopyReply(Yes))]
    /\ env.bria_token # None
    /\ ~IsRaised(env.bria)
    /\ env.bria.status < ErrorStatus
    /\ env.bria.body # Unparseable

CollectedUrls == collect_image_urls(Unwrap(env.bria.body), <<>>)
FirstAt(l, u) == CHOOSE i \in 1..Len(l) : l[i] = u /\ \A j \in 1..(i - 1) : l[j] # u

\* C19: the image_urls list returned by post_generation contains each
\* collected URL exactly once, ordered by first occurrence in the
\* depth-first traversal of the image-generation response; for a response
\* holding one image URL at nesting depth three among unrelated strings,
\* the list is exactly that one URL.
C19_ImageUrlsOnceInFirstSeenOrder ==
    (op = "post_generation" /\ ImageStep) =>
        /\ Has(ret, "final")
        /\ Has(ret.final, "image_urls")
        /\ LET l == ret.final.image_urls
               c == CollectedUrls
           IN /\ {l[i] : i \in 1..Len(l)} = {c[i] : i \in 1..Len(c)}
              /\ \A i, j \in 1..Len(l) :
                     i < j => l[i] # l[j] /\ FirstAt(c, l[i]) < FirstAt(c, l[j])
              /\ env.bria.body = NestedImage => l = <<PngUrl>>

\* ============================================================ claim C20
\* the chart builders over every list of fetched posts
TwoReactions == [like |-> 1, love |-> 1]
ChartAnalytics ==
    {[views |-> 10, likes |-> 0, metadata |-> [reactions |-> EmptyObj]],
     [views |-> 10, likes |-> 2, metadata |-> [reactions |-> TwoReactions]],
     [views |-> 30, likes |-> 2, metadata |-> [reactions |-> EmptyObj]],
     [views |-> 30, likes |-> 0, metadata |-> [reactions |-> TwoReactions]]}
ChartPosts ==
    [post_id : {"1", "2"}, has_image : BOOLEAN, analytics : ChartAnalytics]
    \cup [has_image : BOOLEAN, analytics : ChartAnalytics]
ChartPostLists == UNION {[1..n -> ChartPosts] : n \in 0..MaxPosts}

BuildOverview ==
    /\ op = "start_charts"
    /\ \E metric \in Metrics :
           Tool("_build_overview_bar", [posts |-> env.posts, metric |-> metric],
                <<>>, build_overview_bar(env.posts, metric))

BuildByType ==
    /\ op = "start_charts"
    /\ \E metric \in Metrics :
           Tool("_build_by_type", [posts |-> env.posts, metric |-> metric],
                <<>>, build_by_type(env.posts, metric))

BuildTopPosts ==
    /\ op = "start_charts"
    /\ \E metric \in Metrics, top_n \in 0..(MaxPosts + 1) :
           Tool("_build_top_posts",
                [posts |-> env.posts, metric |-> metric, top_n |-> top_n],
                <<>>, build_top_posts(env.posts, metric, top_n))

InitCharts ==
    /\ LE_CHAT_USER_ID = "u1"
    /\ file = EmptyObj
    /\ lastWrite = NoneObj
    /\ op = "start_charts"
    /\ env \in [posts : ChartPostLists]
    /\ reqs = <<>>
    /\ ret = EmptyObj

NextCharts ==
    \/ BuildOverview
    \/ BuildByType
    \/ BuildTopPosts

SpecCharts == InitCharts /\ [][NextCharts]_vars

\* the value the claim gives a post for a metric
ClaimedMetric(post, metric) ==
    IF metric = "views" THEN post.analytics.views
    ELSE IF metric = "likes" THEN post.analytics.likes
    ELSE post.analytics.likes + SumValues(post.analytics.metadata.reactions)

IdsOneTwoViewsTenThirty ==
    /\ env.metric = "views"
    /\ Len(env.posts) = 2
    /\ Has(env.posts[1], "post_id") /\ env.posts[1].post_id = "1"
    /\ Has(env.posts[2], "post_id") /\ env.posts[2].post_id = "2"
    /\ env.posts[1].analytics.views = 10
    /\ env.posts[2].analytics.views = 30

\* C20: for every list of posts and every metric in {views, likes,
\* reactions}, the overview preset yields one label "#<post_id>" and one
\* data value per post, in input order, where the value is the post's
\* metric and reactions = likes + sum of the per-type reaction mapping; for
\* posts with ids 1 and 2 and views 10 and 30, metric views gives labels
\* ["#1", "#2"] and data [10, 30].
C20_OverviewOneBarPerPost ==
    (op = "_build_overview_bar") =>
        /\ Len(ret.cfg.labels) = Len(env.posts)
        /\ Len(ret.cfg.data) = Len(env.posts)
        /\ \A i \in 1..Len(env.posts) :
               /\ Has(env.posts[i], "post_id") =>
                      ret.cfg.labels[i] = <<"#", env.posts[i].post_id>>
               /\ ret.cfg.data[i] = ClaimedMetric(env.posts[i], env.metric)
        /\ IdsOneTwoViewsTenThirty =>
               /\ ret.cfg.labels = <<(<<"#", "1">>), (<<"#", "2">>)>>
               /\ ret.cfg.data = <<10, 30>>

\* the example of the claim, on posts that also carry likes and reactions
C20_Witness ==
    /\ op = "_build_overview_bar"
    /\ IdsOneTwoViewsTenThirty
    /\ env.posts[1].analytics.likes = 2
    /\ env.posts[2].analytics.metadata.reactions = TwoReactions
    /\ ret.cfg.labels = <<(<<"#", "1">>), (<<"#", "2">>)>>
    /\ ret.cfg.data = <<10, 30>>

\* ============================================================ claim C21
Min(a, b) == IF a < b THEN a ELSE b

\* row r is the row of input post p
RowOf(r, p, metric) ==
    /\ r[metric] = ClaimedMetric(p, metric)
    /\ Has(p, "post_id") => r.post_id = p.post_id
    /\ ~Has(p, "post_id") => r.post_id = "?"

\* C21: for every list of n posts and every top_n >= 1, the top_posts
\* preset returns exactly min(top_n, n) rows sorted by the metric in
\* non-increasing order, rows with equal metric values appear in their
\* input order, and no omitted post has a metric value greater than a
\* returned one.
C21_TopPostsStableDescending ==
    (op = "_build_top_posts" /\ env.top_n >= 1) =>
        LET posts == env.posts
            m == env.metric
            top == ret.table
        IN /\ Len(top) = Min(env.top_n, Len(posts))
           /\ ret.cfg.data = [i \in 1..Len(top) |-> top[i][m]]
           /\ \A i \in 1..(Len(top) - 1) : top[i][m] >= top[i + 1][m]
           /\ \E f \in [1..Len(top) -> 1..Len(posts)] :
                  /\ \A i, j \in 1..Len(top) : i # j => f[i] # f[j]
                  /\ \A i \in 1..Len(top) : RowOf(top[i], posts[f[i]], m)
                  /\ \A i, j \in 1..Len(top) :
                         (i < j /\ top[i][m] = top[j][m]) => f[i] < f[j]
                  /\ \A k \in 1..Len(posts) :
                         (\A i \in 1..Len(top) : f[i] # k) =>
                             \A i \in 1..Len(top) :
                                 /\ ClaimedMetric(posts[k], m) <= top[i][m]
                                 /\ ClaimedMetric(posts[k], m) = top[i][m]
                                        => f[i] < k

\* two posts tie on the metric: the one listed first is the one returned
C21_Witness ==
    /\ op = "_build_top_posts"
    /\ env.top_n = 1
    /\ env.metric = "reactions"
    /\ Len(env.posts) = 2
    /\ Has(env.posts[1], "post_id") /\ env.posts[1].post_id = "2"
    /\ Has(env.posts[2], "post_id") /\ env.posts[2].post_id = "1"
    /\ env.posts[1].analytics.likes = 2
    /\ env.posts[2].analytics.likes = 0
    /\ ClaimedMetric(env.posts[1], "reactions") = 2
    /\ ClaimedMetric(env.posts[2], "reactions") = 2
    /\ Len(ret.table) = 1
    /\ ret.table[1].post_id = "2"

\* ============================================================ claim C22
ImagePosts == {i \in 1..Len(env.posts) : env.posts[i].has_image}
TextPosts == {i \in 1..Len(env.posts) : ~env.posts[i].has_image}

\* C22: the by_type preset always yields exactly two bars, Image then Text,
\* whose table counts sum to the number of input posts; when no post of one
\* type exists, that type's average is 0 and no error is produced,
\* including for an empty post list.
C22_ByTypeTwoBars ==
    (op = "_build_by_type") =>
        /\ ~IsRaised(ret)
        /\ ret.cfg.labels = <<"Image", "Text">>
        /\ Len(ret.cfg.data) = 2
        /\ Len(ret.table) = 2
        /\ ret.table[1].type = "Image" /\ ret.table[2].type = "Text"
        /\ ret.table[1].count = Cardinality(ImagePosts)
        /\ ret.table[2].count = Cardinality(TextPosts)
        /\ ret.table[1].count + ret.table[2].count = Len(env.posts)
        /\ ImagePosts = {} => ret.cfg.data[1] = 0 /\ ret.table[1].avg = 0
        /\ TextPosts = {} => ret.cfg.data[2] = 0 /\ ret.table[2].avg = 0

\* two image posts and no text post: the Text bar is 0 with count 0
C22_Witness ==
    /\ op = "_build_by_type"
    /\ env.metric = "views"
    /\ Len(env.posts) = 2
    /\ TextPosts = {}
    /\ env.posts[1].analytics.views = 10
    /\ env.posts[2].analytics.views = 30
    /\ ret.cfg.data = <<2000, 0>>
    /\ ret.table[1].count = 2
    /\ ret.table[2].count = 0

\* ============================================================ claim C23
\* module-level configuration: os.getenv gives None for an unset variable
EnvValues(v) == {None, "", v}
DefaultRedirect == "http://localhost:8000/facebook/callback"
MainDefaultKey == "default-key"

\* not x, for a value that is None or a string
Falsy(x) == x \in {None, ""}

\* src/config/settings.py
settings ==
    IF Falsy(env.FACEBOOK_APP_ID) \/ Falsy(env.FACEBOOK_APP_SECRET)
    THEN Raised("ValueError")
    ELSE [FACEBOOK_APP_ID |-> env.FACEBOOK_APP_ID,
          FACEBOOK_APP_SECRET |-> env.FACEBOOK_APP_SECRET,
          FACEBOOK_REDIRECT_URI |-> IF Falsy(env.FACEBOOK_REDIRECT_URI)
                                    THEN DefaultRedirect
                                    ELSE env.FACEBOOK_REDIRECT_URI,
          LE_CHAT_USER_ID |-> LE_CHAT_USER_ID,
          MISTRAL_API_KEY |-> env.MISTRAL_API_KEY]

\* main.py: the same, with a default for the API key
main_settings ==
    IF Falsy(env.FACEBOOK_APP_ID) \/ Falsy(env.FACEBOOK_APP_SECRET)
    THEN Raised("ValueError")
    ELSE [FACEBOOK_APP_ID |-> env.FACEBOOK_APP_ID,
          FACEBOOK_APP_SECRET |-> env.FACEBOOK_APP_SECRET,
          FACEBOOK_REDIRECT_URI |-> IF Falsy(env.FACEBOOK_REDIRECT_URI)
                                    THEN DefaultRedirect
                                    ELSE env.FACEBOOK_REDIRECT_URI,
          LE_CHAT_USER_ID |-> LE_CHAT_USER_ID,
          MISTRAL_API_KEY |-> IF env.MISTRAL_API_KEY = None
                              THEN MainDefaultKey ELSE env.MISTRAL_API_KEY]

LoadSettings ==
    /\ op = "start_process"
    /\ Tool("settings", env, <<>>, settings)

MainLoadSettings ==
    /\ op = "start_process"
    /\ Tool("main_settings", env, <<>>, main_settings)

InitStartup ==
    /\ LE_CHAT_USER_ID \in EnvValues("u1")
    /\ file = EmptyObj
    /\ lastWrite = NoneObj
    /\ op = "start_process"
    /\ env \in [FACEBOOK_APP_ID : EnvValues("app"),
                 FACEBOOK_APP_SECRET : EnvValues("secret"),
                 FACEBOOK_REDIRECT_URI : {None, "https://host/cb"},
                 MISTRAL_API_KEY : EnvValues("key")]
    /\ reqs = <<>>
    /\ ret = EmptyObj

NextStartup ==
    \/ LoadSettings
    \/ MainLoadSettings

SpecStartup == InitStartup /\ [][NextStartup]_vars

RequiredAbsent ==
    \/ env.FACEBOOK_APP_ID = None
    \/ env.FACEBOOK_APP_SECRET = None
    \/ LE_CHAT_USER_ID = None
    \/ env.MISTRAL_API_KEY = None

\* C23: startup validation makes the process fail before any tool can be
\* invoked whenever a required configuration value is absent, for each of:
\* app id, app secret, fixed user id and language-model API key.
C23_FailFastOnMissingConfiguration ==
    (op \in {"settings", "main_settings"} /\ RequiredAbsent) => IsRaised(ret)

\* ============================================================ claim C24
FetchOps == {"fetch_analytics_data", "fetch_facebook_analytics_data"}
Gets(kind) == {i \in 1..Len(reqs) : reqs[i].method = "GET" /\ reqs[i].url[2] = kind}
GetsFor(id, kind) == {i \in Gets(kind) : reqs[i].url[1] = id}
ListedAs(id) ==
    {i \in 1..ListedCount(env.posts) : env.posts.data[i].id = id}

\* C24: no upstream endpoint is ever called again after a failure: in one
\* fetch_analytics_data run over n listed posts there is exactly one
\* listing GET and, per post, at most one insights GET and at most one
\* reactions GET, so at most 1 + 2n Graph API requests in total, and a
\* failed language-model call is surfaced to the caller after exactly one
\* POST.
C24_NoRetries ==
    /\ (op \in FetchOps /\ reqs # <<>>) =>
           /\ Cardinality(Gets("posts")) = 1
           /\ reqs[1].url[2] = "posts"
           /\ \A id \in PostIds :
                  /\ Cardinality(GetsFor(id, "insights"))
                         <= Cardinality(ListedAs(id))
                  /\ Cardinality(GetsFor(id, "reactions"))
                         <= Cardinality(ListedAs(id))
           /\ Len(reqs) <= 1 + 2 * ListedCount(env.posts)
    /\ (op = "chat_complete" /\ env.api_key # None
           /\ ~(HttpOk /\ HttpParses)) =>
           /\ IsRaised(ret)
           /\ PostCount = 1

\* ============================================================ claim C25
\* Two callback requests reach the callback server while a tool of the MCP
\* server process reads the credential file.  facebook_callback is an
\* async handler without any await, so the server's event loop runs one
\* handler to its end before it starts the next; the tool process runs
\* beside it.  save_user_data opens the file for writing, which empties
\* it, and the text is there when the file is closed.
\*   env.calls   what each request's exchange returns
\*   env.pending requests not yet handled
\*   env.active  the handler that is running: its request, the mapping it
\*               built and its position, or None
\*   env.order   the requests handled, in order
\*   env.written the complete mappings the file has held, in order
CallIds == {1, 2}
CallTokens == <<"ut1", "ut2">>
CallRecord(i) ==
    [facebook_user_id |-> LE_CHAT_USER_ID,
     access_token |-> CallTokens[i], pages |-> env.calls[i]]

Step(name, e, f, r) ==
    /\ op' = name
    /\ env' = e
    /\ file' = f
    /\ ret' = r
    /\ UNCHANGED <<LE_CHAT_USER_ID, reqs>>

\* lines 48-273: both upstream calls, load_user_data, the new record
CallbackLoad ==
    /\ Has(env, "active") /\ env.active = NoneObj
    /\ \E i \in env.pending :
           /\ Step("callback_load",
                   [env EXCEPT !.pending = @ \ {i},
                               !.active = [call |-> i, pc |-> "open",
                                           user_data |->
                                               DictSet(load_user_data,
                                                       LE_CHAT_USER_ID,
                                                       CallRecord(i))]],
                   file, ret)
           /\ UNCHANGED lastWrite

\* a save that writes beside the file and leaves it whole until the end
CallbackOpenKeeping ==
    /\ Has(env, "active") /\ env.active # NoneObj /\ env.active.pc = "open"
    /\ Step("callback_open", [env EXCEPT !.active.pc = "dump"], file, ret)
    /\ UNCHANGED lastWrite

\* save_user_data, open(USER_DATA_FILE, 'w'): the file is empty
CallbackOpen ==
    /\ Has(env, "active") /\ env.active # NoneObj /\ env.active.pc = "open"
    /\ Step("callback_open", [env EXCEPT !.active.pc = "dump"],
            Unreadable, ret)
    /\ UNCHANGED lastWrite

\* json.dump and the end of the with block, then the success page
CallbackDump ==
    /\ Has(env, "active") /\ env.active # NoneObj /\ env.active.pc = "dump"
    /\ Step("callback_dump",
            [env EXCEPT !.active = NoneObj,
                        !.order = Append(@, env.active.call),
                        !.written = Append(@, save_user_data(env.active.user_data))],
            save_user_data(env.active.user_data), ret)
    /\ lastWrite' = CallRecord(env.active.call)

\* load_user_data in the tool process
ToolLoad ==
    /\ Has(env, "active")
    /\ Step("load_user_data", env, file,
            IF LoadRaises THEN Raised("JSONDecodeError")
            ELSE [seen |-> load_user_data])
    /\ UNCHANGED lastWrite

InitRace ==
    /\ LE_CHAT_USER_ID \in UserIds
    /\ file \in {EmptyObj, [k \in {"u2"} |-> OtherRecord]}
    /\ lastWrite = NoneObj
    /\ op = "start_race"
    /\ env \in [calls : [CallIds -> PageLists], pending : {CallIds},
                 active : {NoneObj}, order : {<<>>}, written : {<<file>>}]
    /\ reqs = <<>>
    /\ ret = EmptyObj

NextRace ==
    \/ CallbackLoad
    \/ CallbackOpen
    \/ CallbackDump
    \/ ToolLoad

SpecRace == InitRace /\ [][NextRace]_vars

InRace == Has(env, "active")
BothDone == InRace /\ env.pending = {} /\ env.active = NoneObj
MidWrite == InRace /\ env.active # NoneObj /\ env.active.pc = "dump"

\* C25 as stated: after both callbacks have finished the file holds a
\* well-formed mapping whose record under the fixed user id is wholly the
\* record of one of the two callbacks, and a tool that loads the file at
\* any point during the two writes observes either a complete earlier
\* mapping or a complete later mapping.
C25_ReadersSeeCompleteMappings ==
    /\ BothDone =>
           /\ ~LoadRaises
           /\ file[StoredKey] \in {CallRecord(i) : i \in CallIds}
    /\ (InRace /\ op = "load_user_data") =>
           /\ ~IsRaised(ret)
           /\ \E n \in 1..Len(env.written) : ret.seen = env.written[n]

\* C25: the two callbacks run one after the other, and after both have
\* finished the file holds a well-formed mapping whose record under the
\* fixed user id is wholly the record of the callback handled last; the
\* file is unreadable exactly while a save is between opening and closing
\* it, a tool that loads it then gets a decoding error, and a tool that
\* loads it at any other point observes the latest complete mapping.
C25_WritersSerialReadersMayFail ==
    /\ BothDone =>
           /\ ~LoadRaises
           /\ Len(env.order) = 2
           /\ file[StoredKey] = CallRecord(env.order[2])
           /\ lastWrite = CallRecord(env.order[2])
    /\ InRace => (LoadRaises <=> MidWrite)
    /\ (InRace /\ op = "load_user_data") =>
           IF MidWrite THEN ret = Raised("JSONDecodeError")
           ELSE /\ ~IsRaised(ret)
                /\ ret.seen = env.written[Len(env.written)]

\* the first callback has finished, the second is writing, and the tool
\* that loads the file now gets the decoding error
C25_Witness ==
    /\ InRace
    /\ op = "load_user_data"
    /\ env.order = <<2>>
    /\ MidWrite
    /\ env.active.call = 1
    /\ file = Unreadable
    /\ ret = Raised("JSONDecodeError")

\* ============================================================ claim C26
CallbackFailed ==
    op = "facebook_callback" /\ ret.page # "Facebook Authorization Complete"

\* C26: an OAuth callback that fails (error query parameter present, code
\* missing, token exchange response without access_token, page listing
\* response without data, or an exception in any upstream call) leaves the
\* credential file unchanged; an error parameter takes precedence over a
\* code parameter, so with both present no token exchange request is made.
C26_FailedCallbackKeepsFile ==
    [][/\ CallbackFailed' => file' = file /\ lastWrite' = lastWrite
       /\ (op' = "facebook_callback" /\ env'.error # None) =>
              /\ CallbackFailed'
              /\ ret'.page = "Authorization Failed"
              /\ reqs' = <<>>
       /\ (op' = "facebook_callback" /\ env'.error = None) =>
              (CallbackFailed' <=>
                  \/ env'.code = None
                  \/ IsRaised(env'.token)
                  \/ ~Has(env'.token, "access_token")
                  \/ IsRaised(env'.pages)
                  \/ ~Has(env'.pages, "data"))]_vars

\* a stored connection survives a later callback carrying both a code and
\* an error
C26_Witness ==
    /\ CallbackFailed
    /\ env.error # None
    /\ env.code # None
    /\ reqs = <<>>
    /\ lastWrite # NoneObj
    /\ StoredKey \in DOMAIN file
    /\ file[StoredKey] = lastWrite
    /\ lastWrite.pages # <<>>

\* ============================================================ claim C27
ImageAnswered ==
    /\ env.bria_token # None
    /\ ~IsRaised(env.bria)
    /\ env.bria.status < ErrorStatus
    /\ env.bria.body # Unparseable

\* C27: an image-generation failure never fails post_generation: when the
\* API token is unset, the response status is 400 or above, or the request
\* raises, the result still contains analysis, final and provenance,
\* final.image_urls is the empty list and final.image_error holds the
\* diagnostic (status and raw body for a bad status); final.image_error is
\* absent exactly when the image request returned a status below 400 and
\* its body parsed.
C27_ImageFailureKeepsResult ==
    (op = "post_generation" /\ CopyStep) =>
        /\ Has(ret, "analysis") /\ Has(ret, "final") /\ Has(ret, "provenance")
        /\ Has(ret.final, "image_urls")
        /\ Has(ret.final, "image_error") <=> ~ImageAnswered
        /\ ~ImageAnswered => ret.final.image_urls = <<>>
        /\ env.bria_token = None =>
               ret.final.image_error = <<"BRIA_API_TOKEN not set">>
        /\ (env.bria_token # None /\ IsRaised(env.bria)) =>
               ret.final.image_error = <<env.bria.raise>>
        /\ (env.bria_token # None /\ ~IsRaised(env.bria)
               /\ env.bria.status >= ErrorStatus) =>
               ret.final.image_error
                   = <<"Bria error", env.bria.status, env.bria.text>>

\* ============================================================ claim C28
ImageRequests == {i \in 1..Len(reqs) : Has(reqs[i], "prompt")}
ModelAskedForImage ==
    env.copy = [status |-> 200, body |-> Completion(GoodCopyReply(Yes))]

\* C28: whenever copy generation succeeded and the image-generation API
\* token is set, post_generation sends exactly one image-generation
\* request regardless of the value of image_needed, using as prompt the
\* model's image_prompt when it is present and non-empty and the caller's
\* new_post_idea otherwise.
C28_OneImageRequestWithPrompt ==
    (op = "post_generation" /\ CopyStep /\ env.bria_token # None) =>
        /\ Cardinality(ImageRequests) = 1
        /\ \A i \in ImageRequests :
               /\ i = Len(reqs)
               /\ reqs[i].method = "POST"
               /\ reqs[i].prompt = IF ModelAskedForImage THEN <<Word>>
                                   ELSE env.idea

\* ============================================================ claim C29
\* generate_charts alone, over the files and inputs of the tools
NextChartTool == GenerateCharts
SpecChartTool == InitTools /\ [][NextChartTool]_vars

MetricRejected == NormalMetric(env.metric) \notin {"views", "likes", "reactions"}
ChartData ==
    fetch_analytics_data(LE_CHAT_USER_ID, file, env.posts, env.an).data
ChartsBuilt ==
    /\ op = "generate_charts"
    /\ ~MetricRejected
    /\ ~LoadRaises
    /\ is_connected(LE_CHAT_USER_ID, file)
    /\ ChartData # <<>>
KnownPreset(name) == NormalPreset(name) \in {"overview", "by_type", "top_posts"}
WantedPresets ==
    LET known == SelectSeq(env.presets, KnownPreset)
    IN IF known = <<>> THEN <<"overview">>
       ELSE [i \in 1..Len(known) |-> NormalPreset(known[i])]
\* the presets that read the post text fail on a text that is no string
BuildFails(preset) ==
    preset \in {"overview", "top_posts"} /\ HasNumberText(ChartData)

MaxEvents == 2
PyFile == [kind |-> "modified", is_directory |-> FALSE, src_path |-> "tools.py"]
FileEvents ==
    {PyFile,
     [kind |-> "modified", is_directory |-> TRUE, src_path |-> "pkg.py"],
     [kind |-> "modified", is_directory |-> FALSE, src_path |-> "facebook_users.json"],
     [kind |-> "created", is_directory |-> FALSE, src_path |-> "new.py"]}
\* event.src_path.endswith('.py')
EndsWithPy(path) == path \in {"tools.py", "pkg.py", "new.py"}

\* a child: running (it may or may not die of SIGTERM) or dead
NewProc(ignoring, cause) ==
    [alive |-> TRUE, ignoring |-> ignoring, term |-> FALSE, timeout |-> FALSE,
     kill |-> FALSE, reaped |-> FALSE, cause |-> cause]
InitialStart == [kind |-> "init"]

Dev(name, e) ==
    /\ op' = name
    /\ env' = e
    /\ UNCHANGED <<LE_CHAT_USER_ID, file, lastWrite, reqs, ret>>

\* the operating system reports a change under the watched directory
FileEvent ==
    /\ env.sent < MaxEvents
    /\ env.main = "loop"
    /\ \E ev \in FileEvents :
           Dev("file_event",
               [env EXCEPT !.queue = Append(@, ev), !.sent = @ + 1,
                           !.wanted = IF ev = PyFile THEN @ + 1 ELSE @])

\* on_modified (42-51); other kinds of event go to handlers that do nothing
on_modified ==
    /\ env.pc = "idle"
    /\ env.queue # <<>>
    /\ LET event == Head(env.queue)
           rest == [env EXCEPT !.queue = Tail(@)]
       IN Dev("on_modified",
              IF event.kind # "modified" THEN rest
              ELSE IF event.is_directory THEN rest
              ELSE IF EndsWithPy(event.src_path)
              THEN [rest EXCEPT !.pc = "terminate", !.cause = event]
              ELSE rest)

\* start_server, line 26: self.process.terminate()
Terminate ==
    /\ env.pc = "terminate"
    /\ Dev("terminate",
           [env EXCEPT !.pc = "wait", !.procs[env.process].term = TRUE])

\* line 29: wait(timeout=3) returns, the child has exited
WaitReturns ==
    /\ env.pc = "wait"
    /\ ~env.procs[env.process].alive
    /\ Dev("wait", [env EXCEPT !.pc = "popen", !.procs[env.process].reaped = TRUE])

\* a wait that gives up after the timeout and goes on
WaitTimeoutGivingUp ==
    /\ env.pc = "wait"
    /\ env.procs[env.process].alive
    /\ Dev("wait_timeout",
           [env EXCEPT !.pc = "popen", !.procs[env.process].timeout = TRUE])

\* line 30: TimeoutExpired, the child is still there after 3 seconds
WaitTimeout ==
    /\ env.pc = "wait"
    /\ env.procs[env.process].alive
    /\ Dev("wait_timeout",
           [env EXCEPT !.pc = "kill", !.procs[env.process].timeout = TRUE])

\* line 33: self.process.kill()
Kill ==
    /\ env.pc = "kill"
    /\ Dev("kill", [env EXCEPT !.pc = "wait_kill",
                               !.procs[env.process].kill = TRUE])

\* line 34: self.process.wait() returns when the child is gone
WaitKilled ==
    /\ env.pc = "wait_kill"
    /\ ~env.procs[env.process].alive
    /\ Dev("wait_killed",
           [env EXCEPT !.pc = "popen", !.procs[env.process].reaped = TRUE])

\* lines 37-40: the pause and subprocess.Popen
Popen ==
    /\ env.pc = "popen"
    /\ \E ignoring \in BOOLEAN :
           Dev("popen",
               [env EXCEPT !.pc = "idle",
                           !.procs = Append(@, NewProc(ignoring, env.cause)),
                           !.process = Len(env.procs) + 1])

\* a child ends: on its own at any time, of SIGTERM unless it ignores it,
\* of SIGKILL always
ChildExits(i) ==
    /\ env.procs[i].alive
    /\ Dev("child_exits", [env EXCEPT !.procs[i].alive = FALSE])
Signalled(i) ==
    \/ env.procs[i].kill
    \/ env.procs[i].term /\ ~env.procs[i].ignoring
ChildExit == \E i \in 1..Len(env.procs) : ChildExits(i)
ChildDies == \E i \in 1..Len(env.procs) : Signalled(i) /\ ChildExits(i)

\* main, lines 74-85: Ctrl+C, then the same stop sequence on whatever
\* event_handler.process is at each line
Interrupt ==
    /\ env.main = "loop"
    /\ Dev("interrupt", [env EXCEPT !.main = "terminate", !.queue = <<>>])
MainTerminate ==
    /\ env.main = "terminate"
    /\ Dev("main_terminate",
           [env EXCEPT !.main = "wait", !.procs[env.process].term = TRUE])
MainWait ==
    /\ env.main = "wait"
    /\ Dev("main_wait",
           IF env.procs[env.process].alive
           THEN [env EXCEPT !.main = "kill", !.procs[env.process].timeout = TRUE]
           ELSE [env EXCEPT !.main = "join", !.procs[env.process].reaped = TRUE])
MainKill ==
    /\ env.main = "kill"
    /\ Dev("main_kill",
           [env EXCEPT !.main = "wait_kill", !.procs[env.process].kill = TRUE])
MainWaitKilled ==
    /\ env.main = "wait_kill"
    /\ ~env.procs[env.process].alive
    /\ Dev("main_wait_killed",
           [env EXCEPT !.main = "join", !.procs[env.process].reaped = TRUE])

\* RestartHandler.__init__ has started the first server
InitDev ==
    /\ LE_CHAT_USER_ID = "u1"
    /\ file = EmptyObj
    /\ lastWrite = NoneObj
    /\ op = "start_dev"
    /\ env \in [procs : {<<NewProc(i, InitialStart)>> : i \in BOOLEAN},
                 process : {1}, queue : {<<>>}, pc : {"idle"},
                 cause : {InitialStart}, sent : {0}, wanted : {0},
                 main : {"loop"}]
    /\ reqs = <<>>
    /\ ret = EmptyObj

HandlerStep ==
    \/ on_modified
    \/ Terminate
    \/ WaitReturns
    \/ WaitTimeout
    \/ Kill
    \/ WaitKilled
    \/ Popen

NextDev ==
    \/ FileEvent
    \/ on_modified
    \/ Terminate
    \/ WaitReturns
    \/ WaitTimeout
    \/ Kill
    \/ WaitKilled
    \/ Popen
    \/ ChildExit
    \/ Interrupt
    \/ MainTerminate
    \/ MainWait
    \/ MainKill
    \/ MainWaitKilled

SpecDev == InitDev /\ [][NextDev]_vars

\* the observer thread keeps running, a timeout expires, a signalled child
\* goes away
SpecDevLive ==
    /\ SpecDev
    /\ WF_vars(HandlerStep)
    /\ WF_vars(ChildDies)

AliveChildren == {i \in 1..Len(env.procs) : env.procs[i].alive}
Stopped(p) ==
    /\ ~p.alive /\ p.term /\ p.reaped
    /\ p.kill => p.timeout
    /\ p.timeout => p.kill

\* C30: in the development runner, after any sequence of file-modification
\* events at most one child server process is alive at any time: a new
\* server process is started only after the previous one has been
\* terminated and waited on (force-killed and waited on if it did not exit
\* within 3 seconds), a restart is triggered only by a modification of a
\* non-directory path ending in .py, and every such event is eventually
\* followed by a running server process (unless the runner is interrupted
\* first).
C30_OneServerRestartedOnPyChange ==
    /\ [](Cardinality(AliveChildren) <= 1)
    /\ [][Len(env'.procs) > Len(env.procs) =>
             /\ Len(env'.procs) = Len(env.procs) + 1
             /\ \A i \in 1..Len(env.procs) : ~env.procs[i].alive
             /\ env.main = "loop" => Stopped(env.procs[env.process])
             /\ env'.procs[Len(env'.procs)].alive
             /\ env'.procs[Len(env'.procs)].cause = PyFile]_vars
    /\ \A n \in 1..MaxEvents :
           (env.wanted >= n) ~>
               (\/ Len(env.procs) > n /\ env.process = Len(env.procs)
                \/ env.main # "loop")

\* the first server ignored SIGTERM and was killed, the second has been
\* started by the change of a .py file and is the only one alive
C30_Witness ==
    /\ op = "popen"
    /\ Len(env.procs) = 2
    /\ env.procs[1].ignoring /\ env.procs[1].kill /\ env.procs[1].reaped
    /\ ~env.procs[1].alive
    /\ env.procs[2].alive
    /\ env.procs[2].cause = PyFile
    /\ AliveChildren = {2}

====
